---- MODULE Spec2Model ----
(***************************************************************************)
(* Model of the vector-memory core of agent_vector_memory: the collection  *)
(* lifecycle (QdrantVectorStore.ensure_collection), the embed-then-upsert  *)
(* write path (UpsertMemoryUseCase), the embed-then-search read path       *)
(* (QueryMemoryUseCase, QdrantVectorStore.search) and the thread scope     *)
(* resolver (_load_thread_id_from_lock).                                   *)
(*                                                                         *)
(* Every HTTP round trip is one atomic step on the remote store; the local *)
(* computation that follows a response, up to the next request, belongs to *)
(* the same step.  Two callers (processes) share the remote store and the  *)
(* lock file.  Text is a sequence of one-character strings; the token      *)
(* "THREAD_ID" stands for that key as one unit.                            *)
(***************************************************************************)
EXTENDS Integers, Sequences, FiniteSets, TLC

\* Bound: the number of use-case calls (and lock-file rewrites) of one run.
MaxOps == 3

Callers == {"c1", "c2"}
Names == {"mem"}
Dims == {2, 3}
Distances == {"Cosine", "Dot"}

\* Python None for an optional dimension (EnsureCollectionRequest.dim) and
\* for the local `existing` of ensure_collection.
NoDim == 0
NoSize == 0

Pipe == "|"
EmptyMap == [k \in {} |-> <<>>]

(***************************************************************************)
(* Text helpers.                                                           *)
(***************************************************************************)
RECURSIVE LStrip(_, _)
LStrip(s, chars) ==
  IF s # <<>> /\ Head(s) \in chars THEN LStrip(Tail(s), chars) ELSE s

RECURSIVE RStrip(_, _)
RStrip(s, chars) ==
  IF s # <<>> /\ s[Len(s)] \in chars THEN RStrip(SubSeq(s, 1, Len(s) - 1), chars) ELSE s

\* str.strip(chars); whitespace when called without an argument.
StripChars(s, chars) == RStrip(LStrip(s, chars), chars)
Whitespace == {" ", "\t"}
Strip(s) == StripChars(s, Whitespace)

\* Index of the first occurrence of ch in s, 0 when there is none.
RECURSIVE IndexFrom(_, _, _)
IndexFrom(s, ch, i) ==
  IF i > Len(s) THEN 0 ELSE IF s[i] = ch THEN i ELSE IndexFrom(s, ch, i + 1)
IndexOf(s, ch) == IndexFrom(s, ch, 1)

(***************************************************************************)
(* The remote vector store: per collection name, absent (GET answers 404)  *)
(* or present with its `config.params.vectors` object and its points, a    *)
(* map from point id to payload.                                           *)
(***************************************************************************)
Absent == [exists |-> FALSE, vectors |-> EmptyMap, points |-> EmptyMap]

\* The body of the create request: {"vectors": {"size": dim, "distance": distance}}.
CreateBodyFixedSize(d, distance) == [size |-> 2, distance |-> distance]

CreateBody(d, distance) == [size |-> d, distance |-> distance]

Created(d, distance) ==
  [exists |-> TRUE, vectors |-> CreateBody(d, distance), points |-> EmptyMap]

\* A collection made by another tool with named vectors (multi-vector config).
MultiVector(d, distance) ==
  [exists |-> TRUE, vectors |-> [text |-> CreateBody(d, distance)], points |-> EmptyMap]

\* data["result"]["config"]["params"]["vectors"]["size"], None when the key
\* is missing (the except branch).
ExistingSize(vectors) ==
  IF "size" \in DOMAIN vectors THEN vectors["size"] ELSE NoSize

\* get_collection_dim: the size of a single-vector config, else the first
\* nested size of a multi-vector config (a map of name to config), else None.
get_collection_dim(coll) ==
  IF ~coll.exists THEN NoSize
  ELSE IF "size" \in DOMAIN coll.vectors THEN coll.vectors["size"]
  ELSE IF \E k \in DOMAIN coll.vectors : "size" \in DOMAIN coll.vectors[k]
  THEN coll.vectors[CHOOSE k \in DOMAIN coll.vectors : "size" \in DOMAIN coll.vectors[k]]["size"]
  ELSE NoSize

\* What ensure_collection does once it knows `existing`: return, raise the
\* size mismatch, or go on to delete and create again.
EnsureDecisionNoRecreateCheck(ex, d, recreate) ==
  IF ex # NoSize /\ ex # d THEN "recreate" ELSE "return"

EnsureDecisionNoCompare(ex, d, recreate) ==
  "return"

EnsureDecisionRecreateWhenAsked(ex, d, recreate) ==
  IF ex # NoSize /\ recreate THEN "recreate"
  ELSE IF ex # NoSize /\ ex # d THEN "raise" ELSE "return"

EnsureDecision(ex, d, recreate) ==
  IF ex # NoSize /\ ex # d
  THEN IF ~recreate THEN "raise" ELSE "recreate"
  ELSE "return"

(***************************************************************************)
(* The thread lock file and the resolver.                                  *)
(***************************************************************************)
NoFile == [exists |-> FALSE, lines |-> <<>>]
File(lines) == [exists |-> TRUE, lines |-> lines]

ThreadKey == <<"THREAD_ID">>
T1 == <<"1">>
T2 == <<"2">>

LockFiles ==
  { NoFile,
    File(<< <<"THREAD_ID", "=", "1">> >>),
    File(<< <<"#", "x">>, <<"THREAD_ID", "=", "\"", "2", "\"">> >>),
    File(<< <<"THREAD_ID", "=", " ">> >>) }

\* One line of _parse_shell_kv_file applied to the dict built so far.
ParseLine(data, raw) ==
  LET s == Strip(raw)
      i == IndexOf(s, "=")
  IN IF s = <<>> \/ Head(s) = "#" \/ i = 0
     THEN data
     ELSE LET k == Strip(SubSeq(s, 1, i - 1))
              v == StripChars(StripChars(Strip(SubSeq(s, i + 1, Len(s))), {"\""}), {"'"})
          IN IF k # <<>>
             THEN [x \in DOMAIN data \cup {k} |-> IF x = k THEN v ELSE data[x]]
             ELSE data

RECURSIVE ParseLines(_, _)
ParseLines(data, lines) ==
  IF lines = <<>> THEN data ELSE ParseLines(ParseLine(data, Head(lines)), Tail(lines))

_parse_shell_kv_file(f) == ParseLines(EmptyMap, f.lines)

\* VM_THREAD_FILTER values of the environment; Unset is the variable not set.
Unset == "<unset>"
FilterValues == {Unset, "0", "TRUE"}
Lower(s) == IF s = "TRUE" THEN "true" ELSE s
FilterEnabled(v) == Lower(IF v = Unset THEN "1" ELSE v) \in {"1", "true", "yes"}

\* None is the empty text: the callers only test `if tid`.
NoThread == <<>>

_load_thread_id_from_lockNoSwitch(filter, f) ==
  IF ~f.exists THEN NoThread
  ELSE LET kv == _parse_shell_kv_file(f)
       IN IF ThreadKey \in DOMAIN kv THEN Strip(kv[ThreadKey]) ELSE NoThread

_load_thread_id_from_lock(filter, f) ==
  IF ~FilterEnabled(filter) THEN NoThread
  ELSE IF ~f.exists THEN NoThread
  ELSE LET kv == _parse_shell_kv_file(f)
       IN IF ThreadKey \in DOMAIN kv /\ Strip(kv[ThreadKey]) # <<>>
          THEN Strip(kv[ThreadKey])
          ELSE NoThread

(***************************************************************************)
(* State.                                                                  *)
(*   store     the remote collections                                      *)
(*   removed   per name, the collection the last DELETE took away and the  *)
(*             caller that sent it                                         *)
(*   lockFile  the thread lock file, written by an external watcher        *)
(*   env       the process environment (VM_THREAD_FILTER,                   *)
(*             MEMORY_PAYLOAD_TEXT_MAX)                                    *)
(*   pc, req   per caller: where its current call stands, and the request  *)
(*   local     the locals of the running call: dim, existing, vecs, points *)
(*   out       what the last call returned or raised                       *)
(*   http      the requests the last call has issued, in order             *)
(*   ops       calls started so far                                        *)
(***************************************************************************)
VARIABLES store, removed, lockFile, env, pc, req, local, out, http, ops

vars == <<store, removed, lockFile, env, pc, req, local, out, http, ops>>

NoReq == [op |-> "none"]
NoLocal == [dim |-> NoDim, existing |-> NoSize, vecs |-> <<>>, points |-> <<>>]
NoOut == [status |-> "none", error |-> "", got |-> 0, expected |-> 0, value |-> <<>>]
Ok(value) == [status |-> "ok", error |-> "", got |-> 0, expected |-> 0, value |-> value]
Raised(error, got, expected) ==
  [status |-> "error", error |-> error, got |-> got, expected |-> expected, value |-> <<>>]

\* A requests.* call failing: connection error, timeout, or raise_for_status
\* on a non-2xx answer.
RequestFailed == Raised("RequestException", 0, 0)

\* One request of the log: what was sent, how it ended ("200", "404", or
\* "failed": no answer, or a status raise_for_status raises on), and the part
\* of the answer the caller reads.
Sent(method, path, body, status, answer) ==
  [method |-> method, path |-> path, body |-> body, status |-> status, answer |-> answer]

Init ==
  /\ store \in [Names -> {Absent, Created(2, "Cosine"), MultiVector(2, "Cosine")}]
  /\ removed = [n \in Names |-> [by |-> "", was |-> Absent]]
  /\ lockFile = NoFile
  /\ env \in [VM_THREAD_FILTER : {Unset, "0"}, MEMORY_PAYLOAD_TEXT_MAX : {4096}]
  /\ pc = [c \in Callers |-> "idle"]
  /\ req = [c \in Callers |-> NoReq]
  /\ local = [c \in Callers |-> NoLocal]
  /\ out = [c \in Callers |-> NoOut]
  /\ http = [c \in Callers |-> <<>>]
  /\ ops = 0

\* A call begins.
Begin(c, r, label, l) ==
  /\ pc[c] = "idle"
  /\ ops < MaxOps
  /\ ops' = ops + 1
  /\ req' = [req EXCEPT ![c] = r]
  /\ pc' = [pc EXCEPT ![c] = label]
  /\ local' = [local EXCEPT ![c] = l]
  /\ out' = [out EXCEPT ![c] = NoOut]
  /\ http' = [http EXCEPT ![c] = <<>>]
  /\ UNCHANGED <<store, removed, lockFile, env>>

\* A call goes on to its next request.
Goto(c, label, l) ==
  /\ pc' = [pc EXCEPT ![c] = label]
  /\ local' = [local EXCEPT ![c] = l]
  /\ UNCHANGED out

\* A call ends, returning or raising `o`; its locals are gone.
Finish(c, o) ==
  /\ pc' = [pc EXCEPT ![c] = "idle"]
  /\ local' = [local EXCEPT ![c] = NoLocal]
  /\ out' = [out EXCEPT ![c] = o]

Log(c, entry) == http' = [http EXCEPT ![c] = Append(@, entry)]

\* A request of the call fails: the exception leaves the call, nothing
\* catches it and nothing sends the request again.
FailThenRetry(c) == UNCHANGED <<pc, local, out>>

Fail(c) == Finish(c, RequestFailed)

(***************************************************************************)
(* EnsureCollectionUseCase.execute and QdrantVectorStore.ensure_collection *)
(***************************************************************************)
EnsureRequests ==
  [op : {"ensure"}, collection : Names, dim : Dims,
   distance : {"Cosine"}, recreate : BOOLEAN]
  \cup [op : {"ensure"}, collection : Names, dim : {NoDim},
        distance : {"Cosine"}, recreate : {FALSE}]
  \cup [op : {"ensure"}, collection : Names, dim : {2},
        distance : {"Dot"}, recreate : {FALSE}]

\* ensure_collection returns: the ensure use case is done, and so is the
\* ensure-collection command; an insert of the UI adapter goes on with its
\* upsert (vector_memory_adapter.py:104-110); vector_create_collection
\* called without dim probes the dimension once more for its answer
\* (mcp/api.py:139).
EnsureReturns(c) ==
  IF req[c].op \in {"ensure", "ensure-collection"} THEN Finish(c, Ok(<<>>))
  ELSE IF req[c].op = "vector_create_collection"
  THEN IF req[c].dim = NoDim THEN Goto(c, "mcp_dim", local[c]) ELSE Finish(c, Ok(<<>>))
  ELSE Goto(c, "ups_embed", NoLocal)

EnsureExecute(c, r) ==
  Begin(c, r, IF r.dim = NoDim THEN "ens_probe" ELSE "ens_get",
        [NoLocal EXCEPT !.dim = r.dim])

\* req.dim is None (or 0): get_dimension embeds the probe text.
EnsureProbe(c) ==
  /\ pc[c] = "ens_probe"
  /\ \/ /\ Log(c, Sent("POST", "embeddings", <<"probe">>, "failed", 0))
        /\ Fail(c)
     \/ \E d \in Dims :
          /\ Log(c, Sent("POST", "embeddings", <<"probe">>, "200", d))
          /\ Goto(c, "ens_get", [local[c] EXCEPT !.dim = d])
  /\ UNCHANGED <<store, removed, lockFile, env, req, ops>>

\* GET /collections/{name}, then the comparison of lines 87-93.
EnsureGet(c) ==
  LET n == req[c].collection
      ex == ExistingSize(store[n].vectors)
      what == EnsureDecision(ex, local[c].dim, req[c].recreate)
  IN
  /\ pc[c] = "ens_get"
  /\ \/ /\ Log(c, Sent("GET", "collection", <<>>, "failed", EmptyMap))
        /\ Fail(c)
     \/ /\ ~store[n].exists
        /\ Log(c, Sent("GET", "collection", <<>>, "404", EmptyMap))
        /\ Goto(c, "ens_create", local[c])
     \/ /\ store[n].exists
        /\ Log(c, Sent("GET", "collection", <<>>, "200", store[n].vectors))
        /\ IF what = "raise" THEN Finish(c, Raised("ValueError", ex, local[c].dim))
           ELSE IF what = "recreate"
           THEN Goto(c, "ens_delete", [local[c] EXCEPT !.existing = ex])
           ELSE EnsureReturns(c)
  /\ UNCHANGED <<store, removed, lockFile, env, req, ops>>

\* PUT /collections/{name}: the store refuses to create a collection that
\* exists.
PutCollection(c, label) ==
  LET n == req[c].collection
      body == CreateBody(local[c].dim, req[c].distance)
  IN
  /\ pc[c] = label
  /\ \/ /\ Log(c, Sent("PUT", "collection", body, "failed", 0))
        /\ Fail(c)
        /\ UNCHANGED store
     \/ /\ ~store[n].exists
        /\ Log(c, Sent("PUT", "collection", body, "200", 0))
        /\ store' = [store EXCEPT ![n] = Created(body.size, body.distance)]
        /\ EnsureReturns(c)
  /\ UNCHANGED <<removed, lockFile, env, req, ops>>

\* The collection was absent (404): lines 81-84.
EnsureCreate(c) == PutCollection(c, "ens_create")

\* DELETE /collections/{name}: lines 95-96.
EnsureDelete(c) ==
  LET n == req[c].collection IN
  /\ pc[c] = "ens_delete"
  /\ \/ /\ Log(c, Sent("DELETE", "collection", <<>>, "failed", 0))
        /\ Fail(c)
        /\ UNCHANGED <<store, removed>>
     \/ /\ Log(c, Sent("DELETE", "collection", <<>>, "200", 0))
        /\ store' = [store EXCEPT ![n] = Absent]
        /\ removed' = [removed EXCEPT ![n] = [by |-> c, was |-> store[n]]]
        /\ Goto(c, "ens_recreate", local[c])
  /\ UNCHANGED <<lockFile, env, req, ops>>

\* The create that follows the delete: lines 97-98.
EnsureRecreate(c) == PutCollection(c, "ens_recreate")

(***************************************************************************)
(* UpsertMemoryUseCase.execute, OllamaEmbeddingService.embed_texts and     *)
(* QdrantVectorStore.upsert_points                                         *)
(***************************************************************************)
ItemA == [text |-> <<Pipe, "t">>, meta |-> [source |-> <<"s">>, thread_id |-> T1]]
ItemB == [text |-> <<"t">>, meta |-> [source |-> <<"s">>, thread_id |-> T2]]
ItemC == [text |-> <<"t">>, meta |-> EmptyMap]

Batches == {<<>>, <<ItemA, ItemB>>}

UpsertRequests ==
  [op : {"upsert"}, collection : Names, items : Batches, id_namespace : {<<"m">>}]
  \cup [op : {"upsert"}, collection : Names, items : {<<ItemC>>},
        id_namespace : {<<"m", Pipe, "s">>}]

\* uuid5(NAMESPACE_URL, f"{namespace}|{source}|{text}"): the hash is taken
\* to be collision-free, so the id is the hashed string itself.
_make_uuid(namespace, source, text) ==
  namespace \o <<Pipe>> \o source \o <<Pipe>> \o text

\* str(it.meta.get("source", ""))
Source(it) == IF "source" \in DOMAIN it.meta THEN it.meta["source"] ELSE <<>>

\* s[:n] of Python.
PySlice(s, n) ==
  IF n >= 0 THEN SubSeq(s, 1, IF n < Len(s) THEN n ELSE Len(s))
  ELSE SubSeq(s, 1, IF Len(s) + n > 0 THEN Len(s) + n ELSE 0)

\* One Point of lines 38-45; a vector is known by its dimension.
MakePointIdFromVector(namespace, it, v, max_chars) ==
  [id |-> _make_uuid(namespace, Source(it), it.text) \o <<ToString(v)>>,
   vector |-> v,
   payload |-> [text_preview |-> PySlice(it.text, max_chars),
                text_len |-> Len(it.text),
                meta |-> it.meta]]

MakePoint(namespace, it, v, max_chars) ==
  [id |-> _make_uuid(namespace, Source(it), it.text),
   vector |-> v,
   payload |-> [text_preview |-> PySlice(it.text, max_chars),
                text_len |-> Len(it.text),
                meta |-> it.meta]]

BuildPoints(r, vs, max_chars) ==
  [i \in 1..Len(r.items) |-> MakePoint(r.id_namespace, r.items[i], vs[i], max_chars)]

\* Lines 30-33: the first vector whose dim differs from that of vecs[0], 0
\* when there is none.
FirstInconsistentNoCheck(vs) == 0

FirstInconsistent(vs) ==
  LET bad == {i \in 1..Len(vs) : vs[i] # vs[1]}
  IN IF bad = {} THEN 0 ELSE CHOOSE i \in bad : \A j \in bad : i <= j

\* The text of the next request of the loop of embed_texts: the texts go in
\* item order, one request each.
NextTextAlwaysFirst(r, vs) == r.items[1].text

NextText(r, vs) == r.items[Len(vs) + 1].text

\* The canonical answer of line 29.
ZeroPointsWithoutResult == <<[status |-> "ok"]>>

ZeroPoints == <<[status |-> "ok", result |-> [operation_id |-> "None", points |-> 0]]>>

UpsertExecute(c, r) == Begin(c, r, "ups_embed", NoLocal)

\* embed_texts([]) returns [] without a request; line 28 returns.
UpsertNothing(c) ==
  /\ pc[c] = "ups_embed"
  /\ req[c].items = <<>>
  /\ Finish(c, Ok(ZeroPoints))
  /\ UNCHANGED <<store, removed, lockFile, env, req, http, ops>>

\* One POST /api/embeddings of the loop of embed_texts; after the last one,
\* the validation and the building of the points (lines 28-45).
UpsertEmbed(c) ==
  LET r == req[c]
      t == NextText(r, local[c].vecs)
  IN
  /\ pc[c] = "ups_embed"
  /\ Len(local[c].vecs) < Len(r.items)
  /\ \/ /\ Log(c, Sent("POST", "embeddings", t, "failed", 0))
        /\ Fail(c)
     \/ \E d \in Dims :
          LET vs == Append(local[c].vecs, d)
              bad == FirstInconsistent(vs)
          IN
          /\ Log(c, Sent("POST", "embeddings", t, "200", d))
          /\ IF Len(vs) < Len(r.items)
             THEN Goto(c, "ups_embed", [local[c] EXCEPT !.vecs = vs])
             ELSE IF bad # 0
             THEN Finish(c, Raised("ValueError", vs[bad], vs[1]))
             ELSE Goto(c, "ups_put",
                       [local[c] EXCEPT !.vecs = vs,
                          !.points = BuildPoints(r, vs, env.MEMORY_PAYLOAD_TEXT_MAX)])
  /\ UNCHANGED <<store, removed, lockFile, env, req, ops>>

\* The points of a collection after an upsert of `ps`: a later point of the
\* batch overwrites an earlier one with the same id.
RECURSIVE Upserted(_, _)
Upserted(stored, ps) ==
  IF ps = <<>> THEN stored
  ELSE LET p == Head(ps)
       IN Upserted([id \in DOMAIN stored \cup {p.id} |->
                      IF id = p.id THEN p.payload ELSE stored[id]], Tail(ps))

\* Whether the store takes unnamed vectors of these dimensions into the
\* collection.
Accepts(coll, ds) ==
  /\ coll.exists
  /\ "size" \in DOMAIN coll.vectors
  /\ \A d \in ds : d = coll.vectors["size"]

\* PUT /collections/{name}/points?wait=true
UpsertPut(c) ==
  LET n == req[c].collection
      ps == local[c].points
  IN
  /\ pc[c] = "ups_put"
  /\ \/ /\ Log(c, Sent("PUT", "points", ps, "failed", 0))
        /\ Fail(c)
        /\ UNCHANGED store
     \/ /\ Accepts(store[n], {ps[i].vector : i \in DOMAIN ps})
        /\ Log(c, Sent("PUT", "points", ps, "200", 0))
        /\ store' = [store EXCEPT ![n].points = Upserted(@, ps)]
        /\ Finish(c, Ok(<<[status |-> "ok", operation_id |-> "0", points |-> Len(ps)]>>))
  /\ UNCHANGED <<removed, lockFile, env, req, ops>>

(***************************************************************************)
(* QueryMemoryUseCase.execute and QdrantVectorStore.search                 *)
(***************************************************************************)
NoThreshold == "None"

QueryRequests ==
  { [op |-> "query", collection |-> n, query |-> <<"t">>, k |-> q[1],
     with_payload |-> q[2], score_threshold |-> q[3]] :
    n \in Names, q \in {<<2, TRUE, NoThreshold>>, <<1, TRUE, "0.5">>, <<1, FALSE, NoThreshold>>} }

QueryExecute(c, r) == Begin(c, r, "qry_embed", NoLocal)

\* embed_texts([req.query])[0]
QueryEmbed(c) ==
  /\ pc[c] = "qry_embed"
  /\ \/ /\ Log(c, Sent("POST", "embeddings", req[c].query, "failed", 0))
        /\ Fail(c)
     \/ \E d \in Dims :
          /\ Log(c, Sent("POST", "embeddings", req[c].query, "200", d))
          /\ Goto(c, "qry_search", [local[c] EXCEPT !.vecs = <<d>>])
  /\ UNCHANGED <<store, removed, lockFile, env, req, ops>>

\* {"must": [{"key": "meta.thread_id", "match": {"value": tid}}]}
ThreadFilter(tid) == [must |-> <<[key |-> "meta.thread_id", match |-> [value |-> tid]]>>]

\* The JSON body of the search request, lines 124-137.
SearchBodyNeverFiltered(vector, limit, with_payload, score_threshold, tid) ==
  [k \in {"vector", "limit", "with_vector", "with_payload"}
        \cup (IF score_threshold # NoThreshold THEN {"score_threshold"} ELSE {}) |->
     CASE k = "vector" -> vector
       [] k = "limit" -> limit
       [] k = "with_vector" -> FALSE
       [] k = "with_payload" -> with_payload
       [] k = "score_threshold" -> score_threshold]

SearchBody(vector, limit, with_payload, score_threshold, tid) ==
  [k \in {"vector", "limit", "with_vector", "with_payload"}
        \cup (IF score_threshold # NoThreshold THEN {"score_threshold"} ELSE {})
        \cup (IF tid # NoThread THEN {"filter"} ELSE {}) |->
     CASE k = "vector" -> vector
       [] k = "limit" -> limit
       [] k = "with_vector" -> FALSE
       [] k = "with_payload" -> with_payload
       [] k = "score_threshold" -> score_threshold
       [] k = "filter" -> ThreadFilter(tid)]

\* The store's side of a search: the ids of the points the body's filter
\* lets through (every `must` condition is an equality on meta.thread_id).
Matching(coll, body) ==
  {id \in DOMAIN coll.points :
     "filter" \in DOMAIN body =>
        \A i \in DOMAIN body["filter"].must :
           LET meta == coll.points[id].meta
           IN /\ "thread_id" \in DOMAIN meta
              /\ meta["thread_id"] = body["filter"].must[i].match.value}

\* The answers the store may give: each a ranking of distinct matching
\* points, `limit` of them (all of them when fewer match); a score
\* threshold may cut the ranking short.
Rankings(coll, body) ==
  LET m == Matching(coll, body)
      top == IF body["limit"] < Cardinality(m) THEN body["limit"] ELSE Cardinality(m)
      lens == IF "score_threshold" \in DOMAIN body THEN 0..top ELSE {top}
  IN UNION {{s \in [1..l -> m] : \A i, j \in 1..l : i # j => s[i] # s[j]} : l \in lens}

\* One item of the answer's "result" list.
Hit(coll, id, rank, with_payload) ==
  IF with_payload
  THEN [id |-> id, score |-> 10 - rank, payload |-> coll.points[id]]
  ELSE [id |-> id, score |-> 10 - rank]

\* Lines 143-149: one QueryResult per item.
ToQueryResult(it) ==
  [id |-> it.id,
   score |-> IF "score" \in DOMAIN it THEN it.score ELSE 0,
   payload |-> IF "payload" \in DOMAIN it THEN it.payload ELSE EmptyMap]

\* The list comprehension of lines 143-150: the items of the answer in the
\* answer's order.
ToQueryResultsReversed(items) ==
  [i \in DOMAIN items |-> ToQueryResult(items[Len(items) + 1 - i])]

ToQueryResults(items) == [i \in DOMAIN items |-> ToQueryResult(items[i])]

\* POST /collections/{name}/points/search
QuerySearch(c) ==
  LET r == req[c]
      coll == store[r.collection]
      tid == _load_thread_id_from_lock(env.VM_THREAD_FILTER, lockFile)
      body == SearchBody(local[c].vecs[1], r.k, r.with_payload, r.score_threshold, tid)
  IN
  /\ pc[c] = "qry_search"
  /\ \/ /\ Log(c, Sent("POST", "search", body, "failed", 0))
        /\ Fail(c)
     \/ /\ Accepts(coll, {body["vector"]})
        /\ \E s \in Rankings(coll, body) :
             LET result == [i \in DOMAIN s |-> Hit(coll, s[i], i, body["with_payload"])]
             IN /\ Log(c, Sent("POST", "search", body, "200", result))
                /\ Finish(c, Ok(ToQueryResults(result)))
  /\ UNCHANGED <<store, removed, lockFile, env, req, ops>>

(***************************************************************************)
(* The watcher process rewrites or removes the lock file.                  *)
(***************************************************************************)
WatcherWrites(f) ==
  /\ f # lockFile
  /\ ops < MaxOps
  /\ ops' = ops + 1
  /\ lockFile' = f
  /\ UNCHANGED <<store, removed, env, pc, req, local, out, http>>

Next ==
  \/ \E c \in Callers : \E r \in EnsureRequests : EnsureExecute(c, r)
  \/ \E c \in Callers : EnsureProbe(c)
  \/ \E c \in Callers : EnsureGet(c)
  \/ \E c \in Callers : EnsureCreate(c)
  \/ \E c \in Callers : EnsureDelete(c)
  \/ \E c \in Callers : EnsureRecreate(c)
  \/ \E c \in Callers : \E r \in UpsertRequests : UpsertExecute(c, r)
  \/ \E c \in Callers : UpsertNothing(c)
  \/ \E c \in Callers : UpsertEmbed(c)
  \/ \E c \in Callers : UpsertPut(c)
  \/ \E c \in Callers : \E r \in QueryRequests : QueryExecute(c, r)
  \/ \E c \in Callers : QueryEmbed(c)
  \/ \E c \in Callers : QuerySearch(c)
  \/ \E f \in LockFiles : WatcherWrites(f)

Spec == Init /\ [][Next]_vars

(***************************************************************************)
(* _chunk of the command line (cli/main.py), applied to drawn inputs.      *)
(***************************************************************************)
\* Bound: the longest text that is chunked.
MaxTextLen == 4

Chars == {"a", "b"}
Texts == UNION {[1..n -> Chars] : n \in 0..MaxTextLen}
ChunkSizes == (0 - 2)..(MaxTextLen + 1)

\* step = max(1, size)
ChunkStepAbs(size) == IF size > 0 THEN size ELSE IF size < 0 THEN 0 - size ELSE 1

ChunkStep(size) == IF size > 1 THEN size ELSE 1

\* [text[i : i + step] for i in range(0, len(text), step)]
_chunkWithoutTail(text, size) ==
  LET step == ChunkStep(size)
      n == Len(text) \div step
  IN [k \in 1..n |-> SubSeq(text, (k - 1) * step + 1, k * step)]

_chunk(text, size) ==
  LET step == ChunkStep(size)
      n == (Len(text) + step - 1) \div step
  IN [k \in 1..n |->
        SubSeq(text, (k - 1) * step + 1,
               IF k * step < Len(text) THEN k * step ELSE Len(text))]

ChunkRequests == [op : {"chunk"}, text : Texts, size : ChunkSizes]

InitChunk ==
  /\ store = [n \in Names |-> Absent]
  /\ removed = [n \in Names |-> [by |-> "", was |-> Absent]]
  /\ lockFile = NoFile
  /\ env = [VM_THREAD_FILTER |-> Unset, MEMORY_PAYLOAD_TEXT_MAX |-> 4096]
  /\ pc = [c \in Callers |-> "idle"]
  /\ \E r \in ChunkRequests : req = [c \in Callers |-> IF c = "c1" THEN r ELSE NoReq]
  /\ local = [c \in Callers |-> NoLocal]
  /\ out = [c \in Callers |-> NoOut]
  /\ http = [c \in Callers |-> <<>>]
  /\ ops = 0

\* The call _chunk(text, size) returns.
Chunk(c) ==
  /\ req[c].op = "chunk"
  /\ out[c] = NoOut
  /\ out' = [out EXCEPT ![c] = Ok(_chunk(req[c].text, req[c].size))]
  /\ UNCHANGED <<store, removed, lockFile, env, pc, req, local, http, ops>>

NextChunk == \E c \in Callers : Chunk(c)

SpecChunk == InitChunk /\ [][NextChunk]_vars

(***************************************************************************)
(* VectorPromptService._prioritize_results_with_text_preview of the UI     *)
(* (ui/application/services/vector_prompt_service.py), applied to drawn    *)
(* result lists.                                                           *)
(***************************************************************************)
\* Bound: the longest result list that is reordered.
MaxResults == 3

\* Python None as a text_preview (a payload with "text_preview": null).
NoneText == <<"None">>

Previews == {NoneText, <<>>, <<" ">>, <<"a">>, <<" ", "a">>}

\* The converted results of a query, in the store's order: the i-th has id i.
ResultLists ==
  UNION {{[i \in 1..n |-> [id |-> i, score |-> 10 - i, text_preview |-> p[i]]] :
            p \in [1..n -> Previews]} : n \in 0..MaxResults}

\* (r.text_preview or "").strip()
PreviewText(r) == Strip(IF r.text_preview = NoneText THEN <<>> ELSE r.text_preview)

_prioritize_results_without_text_first(results) ==
  SelectSeq(results, LAMBDA r : PreviewText(r) = <<>>)
    \o SelectSeq(results, LAMBDA r : PreviewText(r) # <<>>)

\* with_text + without_text, the empty list returned as it is.
_prioritize_results_with_text_preview(results) ==
  IF results = <<>> THEN results
  ELSE SelectSeq(results, LAMBDA r : PreviewText(r) # <<>>)
         \o SelectSeq(results, LAMBDA r : PreviewText(r) = <<>>)

PrioritizeRequests == [op : {"prioritize"}, results : ResultLists]

InitPrioritize ==
  /\ store = [n \in Names |-> Absent]
  /\ removed = [n \in Names |-> [by |-> "", was |-> Absent]]
  /\ lockFile = NoFile
  /\ env = [VM_THREAD_FILTER |-> Unset, MEMORY_PAYLOAD_TEXT_MAX |-> 4096]
  /\ pc = [c \in Callers |-> "idle"]
  /\ \E r \in PrioritizeRequests : req = [c \in Callers |-> IF c = "c1" THEN r ELSE NoReq]
  /\ local = [c \in Callers |-> NoLocal]
  /\ out = [c \in Callers |-> NoOut]
  /\ http = [c \in Callers |-> <<>>]
  /\ ops = 0

\* The call _prioritize_results_with_text_preview(results) returns.
Prioritize(c) ==
  /\ req[c].op = "prioritize"
  /\ out[c] = NoOut
  /\ out' = [out EXCEPT ![c] = Ok(_prioritize_results_with_text_preview(req[c].results))]
  /\ UNCHANGED <<store, removed, lockFile, env, pc, req, local, http, ops>>

NextPrioritize == \E c \in Callers : Prioritize(c)

SpecPrioritize == InitPrioritize /\ [][NextPrioritize]_vars

(***************************************************************************)
(* The write paths that tag new items: remember, remember-bulk,            *)
(* index-memory-bank and store-turn of the command line (cli/main.py,      *)
(* ingestion/memory_bank_loader.py) and the inserts of the UI              *)
(* (VectorPromptService, VectorMemoryAdapter).                             *)
(***************************************************************************)
\* b's entries over a's: {**a, **b}.
Merge(a, b) ==
  [k \in DOMAIN a \cup DOMAIN b |-> IF k \in DOMAIN b THEN b[k] ELSE a[k]]

\* VectorPromptService._load_thread_id_from_lock: the UI's own reading of
\* the lock file, line by line up to the first THREAD_ID.
RECURSIVE UiScanLines(_)
UiScanLines(lines) ==
  IF lines = <<>> THEN NoThread
  ELSE LET s == Strip(Head(lines))
           i == IndexOf(s, "=")
       IN IF s = <<>> \/ Head(s) = "#" \/ i = 0
          THEN UiScanLines(Tail(lines))
          ELSE IF Strip(SubSeq(s, 1, i - 1)) = ThreadKey
          THEN StripChars(StripChars(Strip(SubSeq(s, i + 1, Len(s))), {"\""}), {"'"})
          ELSE UiScanLines(Tail(lines))

Ui_load_thread_id_from_lock(filter, f) ==
  IF ~FilterEnabled(filter) THEN NoThread
  ELSE IF ~f.exists THEN NoThread
  ELSE UiScanLines(f.lines)

\* remember_memory, lines 940-951: one item per text, all with meta_common.
RememberItems(texts, tid) ==
  LET meta_common ==
        Merge([kind |-> "conversational", source |-> <<"cli:remember">>],
              IF tid # NoThread THEN [thread_id |-> tid] ELSE EmptyMap)
  IN [i \in DOMAIN texts |-> [text |-> texts[i], meta |-> meta_common]]

\* An entry of a bulk input: a string ("str"), an object ("dict", has_text
\* telling whether its "text" is a string), any other JSON value ("other"),
\* a line that is no JSON ("nojson"), or a line of a jsonl or txt file that
\* is empty after strip() ("blank"; such lines are skipped).  A line of a
\* txt file that is not blank is a "str".
StrEntry(text) == [kind |-> "str", text |-> text, has_text |-> TRUE, meta |-> EmptyMap]
DictEntry(text, meta) == [kind |-> "dict", text |-> text, has_text |-> TRUE, meta |-> meta]
DictWithoutText == [kind |-> "dict", text |-> <<>>, has_text |-> FALSE, meta |-> EmptyMap]
OtherEntry == [kind |-> "other", text |-> <<>>, has_text |-> FALSE, meta |-> EmptyMap]
NoJsonLine == [kind |-> "nojson", text |-> <<>>, has_text |-> FALSE, meta |-> EmptyMap]
BlankLine == [kind |-> "blank", text |-> <<>>, has_text |-> FALSE, meta |-> EmptyMap]

\* _entry_to_memory_item raises ValueError: lines 730-749.
EntryRaisesNever(entry) == FALSE

EntryRaises(entry) ==
  CASE entry.kind = "str" -> Strip(entry.text) = <<>>
    [] entry.kind = "dict" -> ~entry.has_text \/ Strip(entry.text) = <<>>
    [] OTHER -> TRUE

\* _entry_to_memory_item: an entry is a string, or a text with a meta
\* mapping that goes over the defaults.
_entry_to_memory_item(entry, index, default_meta, source) ==
  LET meta_payload == IF entry.kind = "dict" THEN entry.meta ELSE EmptyMap
      meta == Merge(Merge(default_meta, [bulk_index |-> index]), meta_payload)
  IN [text |-> IF entry.kind = "str" THEN Strip(entry.text) ELSE entry.text,
      meta |-> IF "source" \in DOMAIN meta THEN meta ELSE Merge(meta, [source |-> source])]

\* A bulk input file: whether it exists, its format (given or inferred),
\* and what it holds.  For json, `decodes` tells whether the file is JSON
\* and `list` whether that is a list or has an "items" list, the entries;
\* for jsonl and txt the entries are the lines.
BulkFile(format, entries) ==
  [exists |-> TRUE, format |-> format, decodes |-> TRUE, list |-> TRUE, entries |-> entries]

\* The entries _load_bulk_items turns into items: blank lines are skipped.
Kept(entries) == SelectSeq([i \in DOMAIN entries |-> i], LAMBDA i : entries[i].kind # "blank")

\* _load_bulk_items raises ValueError: a format it does not know, a file or
\* a line that is no JSON, JSON that holds no list, an entry that raises.
BulkRaises(input) ==
  \/ input.format \notin {"txt", "jsonl", "json"}
  \/ /\ input.format = "json"
     /\ \/ ~input.decodes
        \/ ~input.list
        \/ \E i \in DOMAIN input.entries : EntryRaises(input.entries[i])
  \/ /\ input.format = "jsonl"
     /\ \E i \in DOMAIN input.entries :
          input.entries[i].kind # "blank" /\ EntryRaises(input.entries[i])

\* _load_bulk_items: the items of the entries, each with its index in the
\* file (idx from 0).
_load_bulk_items(entries, tid) ==
  LET default_meta ==
        Merge([kind |-> "bulk"], IF tid # NoThread THEN [thread_id |-> tid] ELSE EmptyMap)
      kept == Kept(entries)
  IN [j \in DOMAIN kept |->
        _entry_to_memory_item(entries[kept[j]], kept[j] - 1, default_meta,
                              <<"cli:remember-bulk:", "f">>)]

\* One turn of the loop of load_memory_items: the item of one .md file,
\* tagged with the thread id that current_thread_id() returns in that turn.
MemoryBankItem(file, tid) ==
  [text |-> file.text,
   meta |-> Merge([source |-> file.path, name |-> file.path,
                   size_bytes |-> Len(file.text), kind |-> "memory-bank"],
                  IF tid # NoThread THEN [thread_id |-> tid] ELSE EmptyMap)]

\* store_turn, lines 583 and 608.
MessageId(thread_id, turn_index) == thread_id \o <<":", ToString(turn_index)>>

TurnSourceWithoutIndex(thread_id, turn_index, role, i) ==
  <<"chat:">> \o thread_id \o <<":", ToString(turn_index), ":", role>>

\* source = f"chat:{thread_id}:{turn_index}:{role}:{i}"
TurnSource(thread_id, turn_index, role, i) ==
  <<"chat:">> \o thread_id \o <<":", ToString(turn_index), ":", role, ":", ToString(i)>>

\* store_turn, lines 574-612: the items of one turn, one per chunk; `ts` is
\* the clock.  tool_calls and model are None here and are left out.
StoreTurnItems(ns, chunk_size, ts) ==
  LET thread_id == Strip(ns.thread_id)
      chunks == _chunk(ns.text, chunk_size)
  IN [k \in DOMAIN chunks |->
        [text |-> chunks[k],
         meta |-> [kind |-> "chat", thread_id |-> thread_id, turn_index |-> ns.turn_index,
                   role |-> ns.role, ts |-> ts,
                   message_id |-> MessageId(thread_id, ns.turn_index),
                   chunk_index |-> k - 1, files_touched |-> <<>>,
                   source |-> TurnSource(thread_id, ns.turn_index, ns.role, k - 1)]]]

\* VectorPromptService.insert_data, lines 210-213: the thread id is added
\* unless the metadata has one.
UiMeta(metadata, tid) ==
  IF tid # NoThread /\ "thread_id" \notin DOMAIN metadata
  THEN Merge(metadata, [thread_id |-> tid])
  ELSE metadata

\* The one process of the command line and the UI runs.
CliCallers == {"c1"}

\* MEMORY_PAYLOAD_TEXT_MAX values of the environment (payload_text_max
\* takes any integer).
PayloadMaxima == {0 - 1, 1, 4096}

\* Lock files, among them one with two THREAD_ID lines and one whose quoted
\* value has blanks inside the quotes.
CliLockFiles ==
  LockFiles \cup
  { File(<< <<"THREAD_ID", "=", "1">>, <<"THREAD_ID", "=", "2">> >>),
    File(<< <<"THREAD_ID", "=", "\"", " ", "1", " ", "\"">> >>) }

InitCli ==
  /\ store \in [Names -> {Absent, Created(2, "Cosine")}]
  /\ removed = [n \in Names |-> [by |-> "", was |-> Absent]]
  /\ lockFile \in CliLockFiles
  /\ env \in [VM_THREAD_FILTER : {Unset, "0"}, MEMORY_PAYLOAD_TEXT_MAX : PayloadMaxima,
              MEMORY_CHAT_CHUNK_CHARS : {4000}]
  /\ pc = [c \in Callers |-> "idle"]
  /\ req = [c \in Callers |-> NoReq]
  /\ local = [c \in Callers |-> NoLocal]
  /\ out = [c \in Callers |-> NoOut]
  /\ http = [c \in Callers |-> <<>>]
  /\ ops = 0

\* A command prints a status=error JSON and returns exit code 2.
CommandError(error) ==
  [status |-> "error", error |-> error, got |-> 0, expected |-> 0,
   value |-> <<[status |-> "error", code |-> 2]>>]

\* A command that has nothing to index, or that refuses its input, prints
\* its answer and returns without calling the use case.
ReturnsAtOnce(c, r, o) ==
  /\ pc[c] = "idle"
  /\ ops < MaxOps
  /\ ops' = ops + 1
  /\ req' = [req EXCEPT ![c] = r]
  /\ out' = [out EXCEPT ![c] = o]
  /\ http' = [http EXCEPT ![c] = <<>>]
  /\ UNCHANGED <<store, removed, lockFile, env, pc, local>>

\* The texts of a command: each stripped, the empty ones left out.
RECURSIVE StrippedNonEmpty(_)
StrippedNonEmpty(texts) ==
  IF texts = <<>> THEN <<>>
  ELSE (IF Strip(Head(texts)) # <<>> THEN <<Strip(Head(texts))>> ELSE <<>>)
       \o StrippedNonEmpty(Tail(texts))

\* remember_memory: remember --text ... --idns ...
RememberExecute(c, n, texts, idns) ==
  LET tid == _load_thread_id_from_lock(env.VM_THREAD_FILTER, lockFile)
      r == [op |-> "remember", collection |-> n,
            items |-> RememberItems(StrippedNonEmpty(texts), tid), id_namespace |-> idns]
  IN IF r.items = <<>>
     THEN ReturnsAtOnce(c, r, Ok(<<[status |-> "ok", indexed |-> 0]>>))
     ELSE Begin(c, r, "ups_embed", NoLocal)

\* remember_bulk: the input file is looked for, loaded and checked as a
\* whole, and only then upserted.
RememberBulkExecute(c, n, input, idns) ==
  LET tid == _load_thread_id_from_lock(env.VM_THREAD_FILTER, lockFile)
      refused == [op |-> "remember-bulk", collection |-> n, input |-> input,
                  items |-> <<>>, id_namespace |-> idns]
      r == [refused EXCEPT !.items = _load_bulk_items(input.entries, tid)]
  IN IF ~input.exists THEN ReturnsAtOnce(c, refused, CommandError("InputNotFound"))
     ELSE IF BulkRaises(input) THEN ReturnsAtOnce(c, refused, CommandError("ValueError"))
     ELSE IF r.items = <<>>
     THEN ReturnsAtOnce(c, r, Ok(<<[status |-> "ok", indexed |-> 0]>>))
     ELSE Begin(c, r, "ups_embed", NoLocal)

\* index_memory: index-memory-bank --dir ...; the directory is read file by
\* file before the use case is called.
IndexMemoryExecute(c, n, files, idns) ==
  Begin(c, [op |-> "index-memory-bank", collection |-> n, files |-> files,
            items |-> <<>>, id_namespace |-> idns],
        IF files = <<>> THEN "ups_embed" ELSE "idx_load", NoLocal)

\* load_memory_items: one turn of its loop over the sorted .md files.  The
\* lock file is read anew in every turn; after the last file the items go
\* to the upsert.
load_memory_items(c) ==
  LET tid == _load_thread_id_from_lock(env.VM_THREAD_FILTER, lockFile)
      file == req[c].files[Len(req[c].items) + 1]
      items == Append(req[c].items, MemoryBankItem(file, tid))
  IN
  /\ pc[c] = "idx_load"
  /\ req' = [req EXCEPT ![c].items = items]
  /\ pc' = [pc EXCEPT ![c] = IF Len(items) < Len(req[c].files) THEN "idx_load" ELSE "ups_embed"]
  /\ UNCHANGED <<store, removed, lockFile, env, local, out, http, ops>>

\* chunk_size = int(ns.chunk_chars or 0) or chat_chunk_chars()
ChunkSize(chunk_chars, configured) == IF chunk_chars # 0 THEN chunk_chars ELSE configured

\* store_turn: store-turn --thread-id ... --turn-index ... --role ... --text ...
StoreTurnExecute(c, n, ns) ==
  Begin(c, [op |-> "store-turn", collection |-> n, ns |-> ns,
            items |-> StoreTurnItems(ns, ChunkSize(ns.chunk_chars, env.MEMORY_CHAT_CHUNK_CHARS), ops),
            id_namespace |-> ns.idns],
        "st_list", NoLocal)

AfterListingAlways(c, listed) ==
  Goto(c, IF req[c].op = "store-turn" THEN "ups_embed" ELSE "qry_embed", NoLocal)

\* The test `collection not in available` of store_turn, _execute_command
\* and _recall: the use case runs, or the command returns 2.
AfterListing(c, listed) ==
  IF req[c].collection \in listed
  THEN Goto(c, IF req[c].op = "store-turn" THEN "ups_embed" ELSE "qry_embed", NoLocal)
  ELSE Finish(c, CommandError("CollectionMissing"))

\* _list_qdrant_collections (GET /collections; any error gives []) and the
\* test of lines 560-572.
StoreTurnList(c) ==
  /\ pc[c] = "st_list"
  /\ \/ /\ Log(c, Sent("GET", "collections", <<>>, "failed", {}))
        /\ AfterListing(c, {})
     \/ /\ Log(c, Sent("GET", "collections", <<>>, "200", {n \in Names : store[n].exists}))
        /\ AfterListing(c, {n \in Names : store[n].exists})
  /\ UNCHANGED <<store, removed, lockFile, env, req, ops>>

\* VectorPromptService.insert_data and VectorMemoryAdapter.insert_data: the
\* metadata is tagged, the collection ensured, the item upserted.
UiInsertExecute(c, n, text, metadata) ==
  LET tid == Ui_load_thread_id_from_lock(env.VM_THREAD_FILTER, lockFile)
  IN /\ Strip(text) # <<>>
     /\ Begin(c, [op |-> "insert_data", collection |-> n, dim |-> NoDim,
                  distance |-> "Cosine", recreate |-> FALSE,
                  items |-> <<[text |-> Strip(text), meta |-> UiMeta(metadata, tid)]>>,
                  id_namespace |-> <<"ui">>],
              "ens_probe", NoLocal)

RememberArgs == {<< <<"a">> >>, << <<" ">> >>}
BulkEntries ==
  { << StrEntry(<<"a">>) >>,
    << DictEntry(<<"a">>, [thread_id |-> T2]) >> }
BankFiles ==
  {<<>>, << [path |-> <<"f.md">>, text |-> <<"a">>], [path |-> <<"g.md">>, text |-> <<"b">>] >>}
TurnArgs ==
  [thread_id : {T1}, turn_index : {0}, role : {"user"},
   text : {<<"a", "b">>, <<"b", "a">>}, chunk_chars : {0, 1}, idns : {<<"chat">>}]
UiMetadata == {EmptyMap, [thread_id |-> T2]}
CliQueryRequests == {r \in QueryRequests : r.k = 2}

NextCli ==
  \/ \E c \in CliCallers, n \in Names, t \in RememberArgs : RememberExecute(c, n, t, <<"convo">>)
  \/ \E c \in CliCallers, n \in Names, e \in BulkEntries :
       RememberBulkExecute(c, n, BulkFile("json", e), <<"bulk">>)
  \/ \E c \in CliCallers, n \in Names, f \in BankFiles : IndexMemoryExecute(c, n, f, <<"mem">>)
  \/ \E c \in CliCallers, n \in Names, ns \in TurnArgs : StoreTurnExecute(c, n, ns)
  \/ \E c \in CliCallers : load_memory_items(c)
  \/ \E c \in CliCallers : StoreTurnList(c)
  \/ \E c \in CliCallers, n \in Names, m \in UiMetadata : UiInsertExecute(c, n, <<"a">>, m)
  \/ \E c \in CliCallers : EnsureProbe(c)
  \/ \E c \in CliCallers : EnsureGet(c)
  \/ \E c \in CliCallers : EnsureCreate(c)
  \/ \E c \in CliCallers : UpsertNothing(c)
  \/ \E c \in CliCallers : UpsertEmbed(c)
  \/ \E c \in CliCallers : UpsertPut(c)
  \/ \E c \in CliCallers : \E r \in CliQueryRequests : QueryExecute(c, r)
  \/ \E c \in CliCallers : QueryEmbed(c)
  \/ \E c \in CliCallers : QuerySearch(c)
  \/ \E f \in LockFiles : WatcherWrites(f)

SpecCli == InitCli /\ [][NextCli]_vars

(***************************************************************************)
(* The gates of the command line and of the MCP functions: the collection  *)
(* listing before query, recall and store-turn, the environment allow-list *)
(* before ensure-collection and vector_create_collection, and the          *)
(* validation of remember-bulk.                                            *)
(***************************************************************************)
\* A value of the environment that is blank.
Blank == " "

\* _env_get: the stripped value of the variable, None (Unset) when it is
\* unset or blank.
_env_get(e, key) == IF e[key] \in {Unset, Blank} THEN Unset ELSE e[key]

\* _allowed_collections: MEMORY_COLLECTION_NAME and the values of the
\* MEMORY_COLLECTION_NAME_* variables; the callers only test membership.
_allowed_collectionsAnyName(e) == Names

_allowed_collections(e) ==
  {_env_get(e, "MEMORY_COLLECTION_NAME"), _env_get(e, "MEMORY_COLLECTION_NAME_2")} \ {Unset}

\* What a function of the MCP api returns for a refused call.
McpError(error) ==
  [status |-> "error", error |-> error, got |-> 0, expected |-> 0,
   value |-> <<[status |-> "error"]>>]

InitCmd ==
  /\ store \in [Names -> {Absent, Created(2, "Cosine")}]
  /\ removed = [n \in Names |-> [by |-> "", was |-> Absent]]
  /\ lockFile = NoFile
  /\ env \in [VM_THREAD_FILTER : {Unset}, MEMORY_PAYLOAD_TEXT_MAX : {4096},
              MEMORY_CHAT_CHUNK_CHARS : {4000},
              MEMORY_COLLECTION_NAME : {"mem", "other", Blank},
              MEMORY_COLLECTION_NAME_2 : {Unset, "mem"}]
  /\ pc = [c \in Callers |-> "idle"]
  /\ req = [c \in Callers |-> NoReq]
  /\ local = [c \in Callers |-> NoLocal]
  /\ out = [c \in Callers |-> NoOut]
  /\ http = [c \in Callers |-> <<>>]
  /\ ops = 0

\* _execute_command (query) and _recall (recall): the command starts with
\* the listing of the collections.
QueryCommandExecute(c, cmd, r) == Begin(c, [r EXCEPT !.op = cmd], "qry_list", NoLocal)

\* _list_qdrant_collections (GET /collections; any error gives []) and the
\* test `collection not in available` of _execute_command and _recall.
QueryList(c) ==
  /\ pc[c] = "qry_list"
  /\ \/ /\ Log(c, Sent("GET", "collections", <<>>, "failed", {}))
        /\ AfterListing(c, {})
     \/ /\ Log(c, Sent("GET", "collections", <<>>, "200", {n \in Names : store[n].exists}))
        /\ AfterListing(c, {n \in Names : store[n].exists})
  /\ UNCHANGED <<store, removed, lockFile, env, req, ops>>

\* The ensure-collection command (_extracted_from_dispatch_commands_15) and
\* vector_create_collection of the MCP api: the name is looked up in the
\* allow-list before the ensure use case is called.
AllowListed(c, r) ==
  IF r.collection \notin _allowed_collections(env)
  THEN Begin(c, r, "deny_list", NoLocal)
  ELSE Begin(c, r, IF r.dim = NoDim THEN "ens_probe" ELSE "ens_get",
             [NoLocal EXCEPT !.dim = r.dim])

EnsureCommandExecute(c, r) == AllowListed(c, [r EXCEPT !.op = "ensure-collection"])

vector_create_collection(c, r) == AllowListed(c, [r EXCEPT !.op = "vector_create_collection"])

\* The refusal: the answer lists the collections of the store
\* (available_collections), then the command returns 2, the MCP function
\* its error.
DenyList(c) ==
  LET o == IF req[c].op = "ensure-collection"
           THEN CommandError("NotDeclared") ELSE McpError("NotDeclared")
  IN
  /\ pc[c] = "deny_list"
  /\ \/ /\ Log(c, Sent("GET", "collections", <<>>, "failed", {}))
        /\ Finish(c, o)
     \/ /\ Log(c, Sent("GET", "collections", <<>>, "200", {n \in Names : store[n].exists}))
        /\ Finish(c, o)
  /\ UNCHANGED <<store, removed, lockFile, env, req, ops>>

\* vector_create_collection without dim: int(dim or emb.get_dimension())
\* for the answer, after the ensure.
McpDimension(c) ==
  /\ pc[c] = "mcp_dim"
  /\ \/ /\ Log(c, Sent("POST", "embeddings", <<"probe">>, "failed", 0))
        /\ Fail(c)
     \/ \E d \in Dims :
          /\ Log(c, Sent("POST", "embeddings", <<"probe">>, "200", d))
          /\ Finish(c, Ok(<<[status |-> "ok", dimension |-> d]>>))
  /\ UNCHANGED <<store, removed, lockFile, env, req, ops>>

CmdQueryRequests == {r \in QueryRequests : r.k = 2}
CmdEnsureRequests ==
  [op : {"ensure"}, collection : Names, dim : {NoDim, 3}, distance : {"Cosine"},
   recreate : BOOLEAN]
CmdTurnArgs ==
  [thread_id : {T1}, turn_index : {0}, role : {"user"},
   text : {<<>>, <<"a", "a">>}, chunk_chars : {0, 1}, idns : {<<"chat">>}]
CmdBulkInputs ==
  { [BulkFile("json", <<>>) EXCEPT !.exists = FALSE],
    [BulkFile("json", <<>>) EXCEPT !.decodes = FALSE],
    [BulkFile("json", <<>>) EXCEPT !.list = FALSE],
    BulkFile("yaml", << StrEntry(<<"a">>) >>),
    BulkFile("json", << StrEntry(<<"a">>), StrEntry(<<"b">>) >>),
    BulkFile("json", << StrEntry(<<"a">>), StrEntry(<<" ">>) >>),
    BulkFile("json", << DictEntry(<<"a">>, EmptyMap), DictWithoutText >>),
    BulkFile("json", << StrEntry(<<"a">>), DictEntry(<<" ">>, EmptyMap) >>),
    BulkFile("json", << StrEntry(<<"a">>), OtherEntry >>),
    BulkFile("jsonl", << StrEntry(<<"a">>), BlankLine, NoJsonLine >>),
    BulkFile("jsonl", << BlankLine, DictEntry(<<"a">>, EmptyMap) >>),
    BulkFile("txt", << BlankLine, StrEntry(<<"a">>) >>),
    BulkFile("txt", << BlankLine >>) }

NextCmd ==
  \/ \E c \in CliCallers, cmd \in {"query", "recall"}, r \in CmdQueryRequests :
       QueryCommandExecute(c, cmd, r)
  \/ \E c \in CliCallers : QueryList(c)
  \/ \E c \in CliCallers : QueryEmbed(c)
  \/ \E c \in CliCallers : QuerySearch(c)
  \/ \E c \in CliCallers, n \in Names, ns \in CmdTurnArgs : StoreTurnExecute(c, n, ns)
  \/ \E c \in CliCallers : StoreTurnList(c)
  \/ \E c \in CliCallers, n \in Names, f \in CmdBulkInputs :
       RememberBulkExecute(c, n, f, <<"bulk">>)
  \/ \E c \in CliCallers : UpsertNothing(c)
  \/ \E c \in CliCallers : UpsertEmbed(c)
  \/ \E c \in CliCallers : UpsertPut(c)
  \/ \E c \in CliCallers, r \in CmdEnsureRequests : EnsureCommandExecute(c, r)
  \/ \E c \in CliCallers, r \in CmdEnsureRequests : vector_create_collection(c, r)
  \/ \E c \in CliCallers : DenyList(c)
  \/ \E c \in CliCallers : EnsureProbe(c)
  \/ \E c \in CliCallers : EnsureGet(c)
  \/ \E c \in CliCallers : EnsureCreate(c)
  \/ \E c \in CliCallers : EnsureDelete(c)
  \/ \E c \in CliCallers : EnsureRecreate(c)
  \/ \E c \in CliCallers : McpDimension(c)

SpecCmd == InitCmd /\ [][NextCmd]_vars

(***************************************************************************)
(* What the properties below read off the state.                           *)
(***************************************************************************)
\* The requests of caller c's call with this method and path, in order.
Requests(c, method, path) ==
  SelectSeq(http[c], LAMBDA e : e.method = method /\ e.path = path)

\* The requests of c's call that changed the remote store.
Mutations(c) ==
  SelectSeq(http[c], LAMBDA e : e.status = "200" /\ e.method \in {"PUT", "DELETE"})

\* c sent a request in this step, and it ended with `status`.
Answered(c, status) ==
  /\ Len(http'[c]) = Len(http[c]) + 1
  /\ http'[c][Len(http'[c])].status = status

\* c's call returns or raises in this step.
Ends(c) == pc[c] # "idle" /\ pc'[c] = "idle"

\* The dimensions the embedding provider answered to c's call, in order.
EmbeddedDims(c) ==
  LET e == SelectSeq(http[c], LAMBDA x : x.path = "embeddings" /\ x.status = "200")
  IN [i \in DOMAIN e |-> e[i].answer]

\* The dimension an ensure call asks the store for: req.dim, or the probe's.
RequestedDim(c) == IF req[c].dim # NoDim THEN req[c].dim ELSE EmbeddedDims(c)[1]

\* c's ensure call got the collection's config and its size is not the
\* requested one.
SawMismatch(c) ==
  /\ req[c].op = "ensure"
  /\ \E i \in DOMAIN http[c] :
       /\ http[c][i].method = "GET"
       /\ http[c][i].status = "200"
       /\ "size" \in DOMAIN http[c][i].answer
       /\ http[c][i].answer["size"] # RequestedDim(c)

\* What c's ensure call sent after its GET.
AfterGet(c) ==
  LET g == CHOOSE i \in DOMAIN http[c] : http[c][i].method = "GET"
  IN SubSeq(http[c], g + 1, Len(http[c]))

\* The ids of the points c's call sent to the store.
PutIds(c) ==
  LET e == Requests(c, "PUT", "points")
  IN IF e = <<>> THEN <<>> ELSE [i \in DOMAIN e[1].body |-> e[1].body[i].id]

\* The thread the lock file names, empty when it names none.
ActiveThread ==
  IF lockFile.exists /\ ThreadKey \in DOMAIN _parse_shell_kv_file(lockFile)
  THEN Strip(_parse_shell_kv_file(lockFile)[ThreadKey])
  ELSE NoThread

(***************************************************************************)
(* C1: a non-empty batch whose embedded vectors do not all have the same   *)
(* dim makes execute raise a ContractError, and no upsert request is sent. *)
(***************************************************************************)
C1_MismatchRaisesContractError ==
  \A c \in Callers :
    ( /\ req[c].op = "upsert"
      /\ req[c].items # <<>>
      /\ Len(EmbeddedDims(c)) = Len(req[c].items)
      /\ \E i \in DOMAIN EmbeddedDims(c) : EmbeddedDims(c)[i] # EmbeddedDims(c)[1] )
    => /\ pc[c] = "idle"
       /\ out[c].status = "error"
       /\ out[c].error = "ContractError"
       /\ Requests(c, "PUT", "points") = <<>>

(***************************************************************************)
(* C2: ensure with recreate=false on an existing collection whose stored   *)
(* vector size differs from dim raises the mismatch error, which carries   *)
(* the existing and the requested size; the call has sent no DELETE and no *)
(* PUT, and the step leaves the store as it was.                           *)
(***************************************************************************)
C2_MismatchWithoutRecreateFails ==
  [][\A c \in Callers :
       ( /\ pc[c] = "ens_get"
         /\ ~req[c].recreate
         /\ store[req[c].collection].exists
         /\ "size" \in DOMAIN store[req[c].collection].vectors
         /\ store[req[c].collection].vectors["size"] # local[c].dim
         /\ Answered(c, "200") )
       => /\ pc'[c] = "idle"
          /\ out'[c].status = "error"
          /\ out'[c].error = "ValueError"
          /\ out'[c].got = store[req[c].collection].vectors["size"]
          /\ out'[c].expected = local[c].dim
          /\ store' = store
          /\ \A i \in DOMAIN http'[c] : http'[c][i].method \notin {"DELETE", "PUT"}]_vars

\* A refused ensure(dim 3) beside a collection of size 2 that still holds
\* its points.
C2_Witness ==
  \E c \in Callers :
    /\ req[c].op = "ensure" /\ ~req[c].recreate
    /\ pc[c] = "idle"
    /\ out[c].error = "ValueError" /\ out[c].got = 2 /\ out[c].expected = 3
    /\ store[req[c].collection].vectors = CreateBody(2, "Cosine")
    /\ DOMAIN store[req[c].collection].points # {}

(***************************************************************************)
(* C3: whatever the callers do and however their calls interleave, an      *)
(* existing collection keeps its vector config (its dimension) from one    *)
(* state to the next, unless the step is the DELETE of an ensure call with *)
(* recreate=true on that collection.                                       *)
(***************************************************************************)
C3_DimensionImmutableWithoutRecreate ==
  [][\A n \in Names :
       store[n].exists =>
         \/ store'[n].exists /\ store'[n].vectors = store[n].vectors
         \/ \E c \in Callers :
              /\ req[c].op = "ensure" /\ req[c].recreate /\ req[c].collection = n
              /\ pc[c] = "ens_delete"]_vars

\* After an upsert, a refused ensure(dim 3, recreate=false) and a query, no
\* call having asked for recreate, the collection has the size it had.
C3_Witness ==
  \E c1, c2 \in Callers :
    /\ req[c1].op = "query" /\ pc[c1] = "idle" /\ out[c1].status = "ok"
    /\ req[c2].op = "ensure" /\ ~req[c2].recreate /\ req[c2].dim = 3
    /\ pc[c2] = "idle" /\ out[c2].status = "error"
    /\ store[req[c2].collection].vectors = CreateBody(2, "Cosine")
    /\ DOMAIN store[req[c2].collection].points # {}

(***************************************************************************)
(* C4: an ensure call with recreate=true whose GET showed a size other     *)
(* than dim sends, after the GET, one DELETE and then, once the DELETE has *)
(* succeeded, one create PUT carrying {size: dim, distance}, and nothing   *)
(* else; it returns success exactly when both succeeded, and at that       *)
(* moment the collection exists, empty, with that size and distance.       *)
(***************************************************************************)
C4_Log(c) ==
  LET rest == AfterGet(c)
      body == CreateBody(RequestedDim(c), req[c].distance)
  IN /\ Len(rest) <= 2
     /\ Len(rest) >= 1 =>
          rest[1].method = "DELETE" /\ rest[1].path = "collection"
     /\ Len(rest) = 2 =>
          /\ rest[1].status = "200"
          /\ rest[2].method = "PUT" /\ rest[2].path = "collection"
          /\ rest[2].body = body
     /\ pc[c] = "idle" =>
          /\ Len(rest) >= 1
          /\ out[c].status = "ok" <=> (Len(rest) = 2 /\ rest[2].status = "200")
          /\ out[c].status = "error" <=> rest[Len(rest)].status = "failed"
     /\ pc[c] # "idle" =>
          /\ Len(rest) < 2
          /\ \A i \in DOMAIN rest : rest[i].status = "200"

C4_RecreateDeletesThenCreates ==
  [][\A c \in Callers :
       (SawMismatch(c) /\ req[c].recreate)' =>
         /\ C4_Log(c)'
         /\ (Ends(c) /\ out'[c].status = "ok") =>
              store'[req[c].collection] = Created(local[c].dim, req[c].distance)]_vars

\* A recreate that went through: the collection of size 2 is now of size 3.
C4_Witness ==
  \E c \in Callers :
    /\ SawMismatch(c) /\ req[c].recreate /\ req[c].dim = 3
    /\ pc[c] = "idle" /\ out[c].status = "ok"
    /\ Len(Mutations(c)) = 2
    /\ store[req[c].collection] = Created(3, req[c].distance)

C5_Failed(c) ==
  (pc[c] = "idle" /\ out[c].error = "RequestException") =>
    \/ Mutations(c) = <<>>
    \/ /\ req[c].op = "ensure" /\ req[c].recreate
       /\ Len(Mutations(c)) = 1
       /\ Mutations(c)[1].method = "DELETE"
       /\ http[c][Len(http[c])].method = "PUT"
       /\ http[c][Len(http[c])].path = "collection"
       /\ http[c][Len(http[c])].status = "failed"

C6_DeleteRestsOnOwnGet ==
  [][\A c \in Callers :
       (pc[c] = "ens_delete" /\ Answered(c, "200")) =>
         /\ req[c].recreate
         /\ local[c].existing # NoSize
         /\ local[c].existing # local[c].dim
         /\ ~store'[req[c].collection].exists
         /\ removed'[req[c].collection] = [by |-> c, was |-> store[req[c].collection]]]_vars

C6_StaleDeleteDestroysRecreated ==
  \E c, other \in Callers :
    /\ other # c
    /\ pc[c] = "ens_recreate"
    /\ removed[req[c].collection].by = c
    /\ removed[req[c].collection].was.exists
    /\ removed[req[c].collection].was.vectors["size"] # local[c].existing
    /\ removed[req[c].collection].was.vectors["size"] = local[c].dim
    /\ DOMAIN removed[req[c].collection].was.points # {}
    /\ req[other].op = "upsert" /\ pc[other] = "idle" /\ out[other].status = "ok"
    /\ ~store[req[c].collection].exists

(***************************************************************************)
(* C7: when an ensure call returns success, the collection exists with     *)
(* vector size dim and distance metric distance.                           *)
(***************************************************************************)
C7_EnsureSuccessMeansMatching ==
  [][\A c \in Callers :
       (req[c].op = "ensure" /\ Ends(c) /\ out'[c].status = "ok") =>
         /\ store'[req[c].collection].exists
         /\ store'[req[c].collection].vectors = CreateBody(local[c].dim, req[c].distance)]_vars

(***************************************************************************)
(* C8: upsert is idempotent.  Two executions of the same request send the  *)
(* same point ids; a successful upsert leaves in the collection the ids    *)
(* that were there and its own; and when the same request has already been *)
(* executed and its points are still there, the second execution leaves    *)
(* the set of stored ids as it was: one point per (id_namespace, source,   *)
(* text).                                                                  *)
(***************************************************************************)
C8_UpsertIdempotent ==
  [][/\ \A c1, c2 \in Callers :
          ( /\ req[c1].op = "upsert" /\ req[c1] = req[c2]
            /\ Requests(c1, "PUT", "points") # <<>>
            /\ Requests(c2, "PUT", "points") # <<>> )'
          => (PutIds(c1) = PutIds(c2))'
     /\ \A c \in Callers :
          (pc[c] = "ups_put" /\ Ends(c) /\ out'[c].status = "ok") =>
            LET n == req[c].collection
                ids == {local[c].points[i].id : i \in DOMAIN local[c].points}
            IN /\ DOMAIN store'[n].points = DOMAIN store[n].points \cup ids
               /\ ( \E c2 \in Callers \ {c} :
                      /\ req[c2] = req[c]
                      /\ pc[c2] = "idle" /\ out[c2].status = "ok"
                      /\ \A i \in DOMAIN PutIds(c2) :
                           PutIds(c2)[i] \in DOMAIN store[n].points )
                  => DOMAIN store'[n].points = DOMAIN store[n].points]_vars

\* The batch of two items upserted twice: two stored points.
C8_Witness ==
  \E c1, c2 \in Callers :
    /\ c1 # c2
    /\ req[c1].op = "upsert" /\ req[c1] = req[c2]
    /\ req[c1].items = <<ItemA, ItemB>>
    /\ pc[c1] = "idle" /\ out[c1].status = "ok"
    /\ pc[c2] = "idle" /\ out[c2].status = "ok"
    /\ Cardinality(DOMAIN store[req[c1].collection].points) = 2

(***************************************************************************)
(* C9: points derived under different id_namespace values never have the   *)
(* same id (the hash being collision-free on the string it is given).      *)
(***************************************************************************)
C9_NamespacesPartitionIds ==
  \A c1, c2 \in Callers :
    ( /\ req[c1].op = "upsert" /\ req[c2].op = "upsert"
      /\ req[c1].id_namespace # req[c2].id_namespace )
    => \A i \in DOMAIN PutIds(c1) : \A j \in DOMAIN PutIds(c2) :
         PutIds(c1)[i] # PutIds(c2)[j]

(***************************************************************************)
(* C10: a search made while thread scoping is enabled and the lock file    *)
(* names thread T returns only points stored with meta.thread_id = T, and  *)
(* with their payload when the payload was asked for: no point of another  *)
(* thread and no untagged point.                                           *)
(***************************************************************************)
C10_QueryReturnsOnlyActiveThread ==
  [][\A c \in Callers :
       ( /\ pc[c] = "qry_search" /\ Ends(c) /\ out'[c].status = "ok"
         /\ FilterEnabled(env.VM_THREAD_FILTER)
         /\ ActiveThread # NoThread )
       => \A i \in DOMAIN out'[c].value :
            LET r == out'[c].value[i]
                stored == store[req[c].collection].points
            IN /\ r.id \in DOMAIN stored
               /\ "thread_id" \in DOMAIN stored[r.id].meta
               /\ stored[r.id].meta["thread_id"] = ActiveThread
               /\ req[c].with_payload => r.payload = stored[r.id]]_vars

\* A query under thread 1 that found something, in a collection that also
\* holds a point of another thread or of none.
C10_Witness ==
  \E c \in Callers :
    /\ req[c].op = "query" /\ pc[c] = "idle" /\ out[c].status = "ok"
    /\ Len(out[c].value) >= 1
    /\ FilterEnabled(env.VM_THREAD_FILTER) /\ ActiveThread = T1
    /\ \E id \in DOMAIN store[req[c].collection].points :
         LET meta == store[req[c].collection].points[id].meta
         IN "thread_id" \notin DOMAIN meta \/ meta["thread_id"] # T1

\* The request c sends in this step.
SentNow(c) == http'[c][Len(http'[c])]

\* c sends a request in this step.
Sends(c) == Len(http'[c]) = Len(http[c]) + 1

(***************************************************************************)
(* C12: the body of a search request carries a filter exactly when         *)
(* VM_THREAD_FILTER enables scoping and the lock file exists and yields a  *)
(* non-empty THREAD_ID; the filter is then                                 *)
(* {must: [{key: meta.thread_id, match: {value: THREAD_ID}}]}.  Besides,   *)
(* the body has the query vector, limit = k, with_vector = false,          *)
(* with_payload as requested, score_threshold exactly when one was         *)
(* supplied, and no other key.                                             *)
(***************************************************************************)
C12_SearchBodyFilter ==
  [][\A c \in Callers :
       (pc[c] = "qry_search" /\ Sends(c)) =>
         LET body == SentNow(c).body
             scoped == /\ env.VM_THREAD_FILTER \in {Unset, "1", "true", "TRUE", "yes"}
                       /\ lockFile.exists
                       /\ ActiveThread # <<>>
         IN /\ SentNow(c).method = "POST" /\ SentNow(c).path = "search"
            /\ "filter" \in DOMAIN body <=> scoped
            /\ "filter" \in DOMAIN body =>
                 body["filter"] =
                   [must |-> <<[key |-> "meta.thread_id", match |-> [value |-> ActiveThread]]>>]
            /\ body["vector"] = EmbeddedDims(c)[1]
            /\ body["limit"] = req[c].k
            /\ body["with_vector"] = FALSE
            /\ body["with_payload"] = req[c].with_payload
            /\ "score_threshold" \in DOMAIN body <=> req[c].score_threshold # NoThreshold
            /\ "score_threshold" \in DOMAIN body =>
                 body["score_threshold"] = req[c].score_threshold
            /\ DOMAIN body \subseteq
                 {"vector", "limit", "with_vector", "with_payload", "score_threshold", "filter"}]_vars

\* A search sent under the lock file that quotes thread 2: the filter has
\* the unquoted value.
C12_Witness ==
  \E c \in Callers :
    /\ req[c].op = "query" /\ pc[c] = "idle"
    /\ Requests(c, "POST", "search") # <<>>
    /\ "filter" \in DOMAIN Requests(c, "POST", "search")[1].body
    /\ Requests(c, "POST", "search")[1].body["filter"].must[1].match.value = T2
    /\ "score_threshold" \in DOMAIN Requests(c, "POST", "search")[1].body

(***************************************************************************)
(* C13: an upsert of an empty items list returns the canonical answer      *)
(* {status: ok, result: {operation_id: null, points: 0}}; the call sends   *)
(* no request to the embedding provider or to the store, and the store is  *)
(* as it was.                                                              *)
(***************************************************************************)
C13_EmptyUpsertContactsNobody ==
  [][\A c \in Callers :
       /\ (req[c].op = "upsert" /\ req[c].items = <<>>)' => http'[c] = <<>>
       /\ (pc[c] # "idle" /\ req[c].op = "upsert" /\ req[c].items = <<>>) =>
            \/ UNCHANGED <<pc[c], out[c]>>
            \/ /\ pc'[c] = "idle"
               /\ out'[c].status = "ok"
               /\ out'[c].value =
                    <<[status |-> "ok", result |-> [operation_id |-> "None", points |-> 0]]>>
               /\ store' = store]_vars

\* The empty upsert has returned, next to a collection that exists.
C13_Witness ==
  \E c \in Callers :
    /\ req[c].op = "upsert" /\ req[c].items = <<>>
    /\ pc[c] = "idle" /\ out[c].status = "ok" /\ http[c] = <<>>
    /\ store[req[c].collection].exists

(***************************************************************************)
(* C14: an upsert of N >= 1 items sends N embedding requests, one per item *)
(* in item order, each answered before the next is sent, and then one      *)
(* upsert request that carries N points, one per item in item order; the   *)
(* upsert request is sent only after all N embeddings have been answered,  *)
(* and a call that returns success has sent exactly these N + 1 requests.  *)
(***************************************************************************)
C14_EmbedEachThenUpsertOnce ==
  \A c \in Callers :
    (req[c].op = "upsert" /\ req[c].items # <<>>) =>
      LET N == Len(req[c].items)
          log == http[c]
      IN /\ Len(log) <= N + 1
         /\ \A i \in DOMAIN log :
              IF i <= N
              THEN /\ log[i].method = "POST" /\ log[i].path = "embeddings"
                   /\ log[i].body = req[c].items[i].text
              ELSE /\ log[i].method = "PUT" /\ log[i].path = "points"
                   /\ Len(log[i].body) = N
                   /\ \A k \in 1..N :
                        /\ log[i].body[k].vector = log[k].answer
                        /\ log[i].body[k].payload.meta = req[c].items[k].meta
         /\ \A i \in DOMAIN log : i < Len(log) => log[i].status = "200"
         /\ (pc[c] = "idle" /\ out[c].status = "ok") => Len(log) = N + 1

\* A batch of two items has gone through: three requests.
C14_Witness ==
  \E c \in Callers :
    /\ req[c].op = "upsert" /\ Len(req[c].items) = 2
    /\ pc[c] = "idle" /\ out[c].status = "ok"
    /\ Len(http[c]) = 3
    /\ http[c][1].body # http[c][2].body

\* How many requests of c's call have this method and path.
Count(c, method, path) == Len(Requests(c, method, path))

(***************************************************************************)
(* C15: no call retries.  A request that fails ends the call in the same   *)
(* step with the error, so a failed request is the last one of its call;   *)
(* and no request is sent twice: an ensure sends at most one probe, one    *)
(* GET, one DELETE and one create PUT, a query one embedding and one       *)
(* search, an upsert one embedding per item and one PUT of the points.     *)
(***************************************************************************)
C15_NoRetry ==
  [][\A c \in Callers :
       /\ Answered(c, "failed") =>
            /\ pc'[c] = "idle"
            /\ out'[c].status = "error" /\ out'[c].error = "RequestException"
       /\ ( /\ \A i \in DOMAIN http[c] : http[c][i].status = "failed" => i = Len(http[c])
            /\ (http[c] # <<>> /\ http[c][Len(http[c])].status = "failed") =>
                 pc[c] = "idle" /\ out[c].error = "RequestException"
            /\ req[c].op = "ensure" =>
                 /\ Count(c, "POST", "embeddings") <= (IF req[c].dim = NoDim THEN 1 ELSE 0)
                 /\ Count(c, "GET", "collection") <= 1
                 /\ Count(c, "DELETE", "collection") <= 1
                 /\ Count(c, "PUT", "collection") <= 1
                 /\ Len(http[c]) <= 4
            /\ req[c].op = "query" =>
                 /\ Count(c, "POST", "embeddings") <= 1
                 /\ Count(c, "POST", "search") <= 1
                 /\ Len(http[c]) <= 2
            /\ req[c].op = "upsert" =>
                 /\ Count(c, "POST", "embeddings") <= Len(req[c].items)
                 /\ Count(c, "PUT", "points") <= 1
                 /\ Len(http[c]) <= Len(req[c].items) + 1 )']_vars

\* An ensure whose DELETE failed: the create PUT was never sent.
C15_Witness ==
  \E c \in Callers :
    /\ req[c].op = "ensure" /\ pc[c] = "idle"
    /\ out[c].error = "RequestException"
    /\ Len(http[c]) = 2
    /\ http[c][2].method = "DELETE" /\ http[c][2].status = "failed"
    /\ store[req[c].collection].exists

(***************************************************************************)
(* C20: a search that succeeds returns one QueryResult per item of the     *)
(* store's answer, in the answer's order, each with the id, the score and  *)
(* the payload of its item (the empty mapping when the item has none):     *)
(* nothing is sorted again, left out or cut off.                           *)
(***************************************************************************)
C20_ResultsMirrorAnswer ==
  [][\A c \in Callers :
       (pc[c] = "qry_search" /\ Answered(c, "200")) =>
         LET items == SentNow(c).answer
             results == out'[c].value
         IN /\ pc'[c] = "idle" /\ out'[c].status = "ok"
            /\ Len(results) = Len(items)
            /\ \A i \in DOMAIN items :
                 /\ results[i].id = items[i].id
                 /\ results[i].score = items[i].score
                 /\ results[i].payload =
                      (IF "payload" \in DOMAIN items[i] THEN items[i].payload ELSE EmptyMap)]_vars

\* A search answered with two items, the second one first in id order.
C20_Witness ==
  \E c \in Callers :
    /\ req[c].op = "query" /\ pc[c] = "idle" /\ out[c].status = "ok"
    /\ Len(out[c].value) = 2
    /\ out[c].value[1].id = _make_uuid(<<"m">>, <<"s">>, <<"t">>)
    /\ out[c].value[2].id = _make_uuid(<<"m">>, <<"s">>, <<Pipe, "t">>)
    /\ out[c].value[1].score > out[c].value[2].score

\* s[1] \o s[2] \o ... of a sequence of texts.
RECURSIVE Concat(_)
Concat(s) == IF s = <<>> THEN <<>> ELSE Head(s) \o Concat(Tail(s))

(***************************************************************************)
(* C17: for size >= 1, _chunk(text, size) returns non-empty pieces whose   *)
(* concatenation in order is text (so they are contiguous and do not       *)
(* overlap), every piece but the last of length size and the last of       *)
(* length at most size; the empty text gives no piece.                     *)
(***************************************************************************)
C17_ChunksCoverText ==
  \A c \in Callers :
    (req[c].op = "chunk" /\ out[c].status = "ok" /\ req[c].size >= 1) =>
      LET parts == out[c].value
      IN /\ Concat(parts) = req[c].text
         /\ \A k \in DOMAIN parts :
              /\ parts[k] # <<>>
              /\ Len(parts[k]) <= req[c].size
              /\ k < Len(parts) => Len(parts[k]) = req[c].size
         /\ req[c].text = <<>> => parts = <<>>

\* A text of three characters cut by two: a full piece and a shorter last.
C17_Witness ==
  \E c \in Callers :
    /\ req[c].op = "chunk" /\ out[c].status = "ok"
    /\ req[c].size = 2 /\ req[c].text = <<"a", "b", "a">>
    /\ out[c].value = << <<"a", "b">>, <<"a">> >>

(***************************************************************************)
(* C18: for size <= 0, _chunk(text, size) is _chunk(text, 1): one piece    *)
(* per character of text, in order.                                        *)
(***************************************************************************)
C18_NonPositiveSizeIsOne ==
  \A c \in Callers :
    (req[c].op = "chunk" /\ out[c].status = "ok" /\ req[c].size <= 0) =>
      /\ out[c].value = [i \in 1..Len(req[c].text) |-> <<req[c].text[i]>>]
      /\ out[c].value = _chunk(req[c].text, 1)

\* Size -2 on a text of three characters: three pieces.
C18_Witness ==
  \E c \in Callers :
    /\ req[c].op = "chunk" /\ out[c].status = "ok"
    /\ req[c].size = 0 - 2 /\ Len(req[c].text) = 3
    /\ Len(out[c].value) = 3

\* The commands and inserts that tag the items they write.
WriteOps == {"remember", "remember-bulk", "index-memory-bank", "store-turn", "insert_data"}

(***************************************************************************)
(* C11: when a write path (remember, remember-bulk, index-memory-bank,     *)
(* store-turn, a UI insert) builds its items while thread scoping is       *)
(* enabled and the lock file names thread T, T being what a search sent at *)
(* that moment would carry in its filter, every item it builds has         *)
(* meta.thread_id = T, so that search would match it.                      *)
(***************************************************************************)
C11_WritesTaggedWithActiveThread ==
  [][\A c \in Callers :
       LET T == _load_thread_id_from_lock(env.VM_THREAD_FILTER, lockFile)
       IN ( /\ pc[c] = "idle" /\ pc'[c] # "idle"
            /\ req'[c].op \in WriteOps
            /\ T # NoThread )
          => \A i \in DOMAIN req'[c].items :
               /\ "thread_id" \in DOMAIN req'[c].items[i].meta
               /\ req'[c].items[i].meta["thread_id"] = T]_vars

(***************************************************************************)
(* C16: every point an upsert builds has, in its payload, text_len = the   *)
(* length of its item's text, meta = the item's meta, and text_preview =   *)
(* the first min(len(text), maximum) characters of the text, maximum being *)
(* the configured MEMORY_PAYLOAD_TEXT_MAX: never more characters than the  *)
(* maximum, and the whole text when it fits.                               *)
(***************************************************************************)
C16_PayloadOfPoint ==
  \A c \in Callers :
    \A e \in {http[c][i] : i \in {j \in DOMAIN http[c] : http[c][j].path = "points"}} :
      \A k \in DOMAIN e.body :
        LET it == req[c].items[k]
            maximum == env.MEMORY_PAYLOAD_TEXT_MAX
            payload == e.body[k].payload
        IN /\ payload.text_len = Len(it.text)
           /\ payload.meta = it.meta
           /\ Len(payload.text_preview) <= maximum
           /\ Len(it.text) <= maximum => payload.text_preview = it.text
           /\ payload.text_preview =
                SubSeq(it.text, 1, IF Len(it.text) < maximum THEN Len(it.text) ELSE maximum)

\* The stored points whose meta.message_id is mid.
PointsOfMessage(n, mid) ==
  {id \in DOMAIN store[n].points :
     /\ "message_id" \in DOMAIN store[n].points[id].meta
     /\ store[n].points[id].meta["message_id"] = mid}

(***************************************************************************)
(* C19: once a store-turn has returned success, the stored points with its *)
(* message_id "{thread_id}:{turn_index}" have the chunk_index values       *)
(* 0..n-1, each exactly once, and their stored texts put together in       *)
(* chunk_index order are the text of the turn.                             *)
(***************************************************************************)
C19_TurnReconstructsFromPayloads ==
  \A c \in Callers :
    (req[c].op = "store-turn" /\ pc[c] = "idle" /\ out[c].status = "ok") =>
      LET n == req[c].collection
          pts == PointsOfMessage(n, MessageId(Strip(req[c].ns.thread_id), req[c].ns.turn_index))
          count == Cardinality(pts)
          at(k) == {id \in pts : store[n].points[id].meta["chunk_index"] = k}
      IN /\ \A k \in 0..(count - 1) : Cardinality(at(k)) = 1
         /\ (\A k \in 0..(count - 1) : Cardinality(at(k)) = 1) =>
              Concat([k \in 1..count |->
                        store[n].points[CHOOSE id \in at(k - 1) : TRUE].text_preview])
                = req[c].ns.text

(***************************************************************************)
(* C21: when the GET of an ensure call shows a multi-vector config (a map  *)
(* of name to {size, ...}) whose first nested size is not the requested    *)
(* dim, the call goes on as for a single-vector collection of that size:   *)
(* with recreate=false it raises the size mismatch and leaves the store as *)
(* it was, with recreate=true it goes on to delete and create again.       *)
(***************************************************************************)
C21_MultiVectorComparedByNestedSize ==
  [][\A c \in Callers :
       LET coll == store[req[c].collection] IN
       ( /\ pc[c] = "ens_get" /\ Answered(c, "200")
         /\ "size" \notin DOMAIN coll.vectors
         /\ get_collection_dim(coll) # NoSize
         /\ get_collection_dim(coll) # local[c].dim )
       => IF req[c].recreate
          THEN pc'[c] = "ens_delete"
          ELSE /\ pc'[c] = "idle"
               /\ out'[c].status = "error"
               /\ out'[c].error = "ValueError"
               /\ store' = store]_vars

\* c's ensure call got 404 for its GET: the collection was absent.
SawAbsent(c) ==
  /\ req[c].op = "ensure"
  /\ \E i \in DOMAIN http[c] : http[c][i].method = "GET" /\ http[c][i].status = "404"

(***************************************************************************)
(* C22: an ensure call whose GET was answered 404 sends, after the GET,    *)
(* one create PUT carrying {size: dim, distance} and nothing else, no      *)
(* DELETE in particular; it returns success exactly when that PUT          *)
(* succeeded, and the collection is then present, with vector size dim.    *)
(* The recreate flag plays no part.                                        *)
(***************************************************************************)
C22_AbsentIsCreatedOnce ==
  [][\A c \in Callers :
       SawAbsent(c)' =>
         LET rest == AfterGet(c)'
             dim == RequestedDim(c)'
         IN /\ Len(rest) <= 1
            /\ \A i \in DOMAIN http'[c] : http'[c][i].method # "DELETE"
            /\ Len(rest) = 1 =>
                 /\ rest[1].method = "PUT" /\ rest[1].path = "collection"
                 /\ rest[1].body = [size |-> dim, distance |-> req'[c].distance]
            /\ pc'[c] = "idle" =>
                 /\ Len(rest) = 1
                 /\ out'[c].status = "ok" <=> rest[1].status = "200"
            /\ pc'[c] # "idle" => rest = <<>>
            /\ (Ends(c) /\ out'[c].status = "ok") =>
                 /\ store'[req[c].collection].exists
                 /\ store'[req[c].collection].vectors["size"] = dim
                 /\ store'[req[c].collection].vectors["distance"] = req[c].distance
                 /\ DOMAIN store'[req[c].collection].points = {}]_vars

\* An absent collection created by an ensure(dim 3) with recreate=true: GET,
\* then PUT.
C22_Witness ==
  \E c \in Callers :
    /\ SawAbsent(c) /\ pc[c] = "idle" /\ out[c].status = "ok"
    /\ Len(http[c]) = 2 /\ req[c].recreate /\ req[c].dim = 3
    /\ http[c][2].method = "PUT" /\ http[c][2].status = "200"
    /\ store[req[c].collection].vectors = [size |-> 3, distance |-> "Cosine"]

(***************************************************************************)
(* C23: when the GET of an ensure call shows a collection whose stored     *)
(* vector size is the requested dim, the call returns success in that      *)
(* step, for either value of recreate: it sends no PUT and no DELETE, and  *)
(* the collection, its config and its points are as they were.             *)
(***************************************************************************)
C23_MatchingIsNoOp ==
  [][\A c \in Callers :
       LET coll == store[req[c].collection] IN
       ( /\ req[c].op = "ensure"
         /\ pc[c] = "ens_get" /\ Answered(c, "200")
         /\ "size" \in DOMAIN coll.vectors
         /\ coll.vectors["size"] = local[c].dim )
       => /\ pc'[c] = "idle"
          /\ out'[c].status = "ok"
          /\ store' = store
          /\ \A i \in DOMAIN http'[c] : http'[c][i].method \notin {"PUT", "DELETE"}]_vars

\* ensure(dim 2, recreate=true) beside a collection of size 2 that holds
\* points: success after the GET alone, the points still there.
C23_Witness ==
  \E c \in Callers :
    /\ req[c].op = "ensure" /\ req[c].recreate /\ req[c].dim = 2
    /\ pc[c] = "idle" /\ out[c].status = "ok"
    /\ Len(http[c]) = 1 /\ http[c][1].method = "GET" /\ http[c][1].status = "200"
    /\ store[req[c].collection].vectors = [size |-> 2, distance |-> "Cosine"]
    /\ DOMAIN store[req[c].collection].points # {}

\* The result has a non-blank text_preview.
HasPreview(r) ==
  /\ r.text_preview # NoneText
  /\ \E i \in DOMAIN r.text_preview : r.text_preview[i] \notin Whitespace

(***************************************************************************)
(* C27: _prioritize_results_with_text_preview returns a permutation of its *)
(* input in which every result with a non-blank text_preview comes before  *)
(* every result without one, and inside each of the two groups the results *)
(* keep the order they came in; when all results have a preview, or none   *)
(* has, the list is returned as it came.                                   *)
(***************************************************************************)
C27_PrioritizeIsStablePartition ==
  \A c \in Callers :
    (req[c].op = "prioritize" /\ out[c].status = "ok") =>
      LET given == req[c].results
          got == out[c].value
          \* the input position of a result (its id)
          pos(r) == r.id
      IN /\ Len(got) = Len(given)
         /\ \A i \in DOMAIN given : \E j \in DOMAIN got : got[j] = given[i]
         /\ \A i, j \in DOMAIN got :
              i < j =>
                /\ HasPreview(got[j]) => HasPreview(got[i])
                /\ (HasPreview(got[i]) <=> HasPreview(got[j])) => pos(got[i]) < pos(got[j])
         /\ ( \/ \A i \in DOMAIN given : HasPreview(given[i])
              \/ \A i \in DOMAIN given : ~HasPreview(given[i]) ) => got = given

\* Blank, text, null: the one with text moves to the front, the other two
\* keep their order.
C27_Witness ==
  \E c \in Callers :
    /\ req[c].op = "prioritize" /\ out[c].status = "ok"
    /\ Len(req[c].results) = 3
    /\ req[c].results[1].text_preview = <<" ">>
    /\ req[c].results[2].text_preview = <<" ", "a">>
    /\ req[c].results[3].text_preview = NoneText
    /\ out[c].value = <<req[c].results[2], req[c].results[1], req[c].results[3]>>

(***************************************************************************)
(* C28: whatever the lock file holds and however VM_THREAD_FILTER is set,  *)
(* the UI service's resolver (VectorPromptService._load_thread_id_from_lock) *)
(* yields the thread id that the store client's resolver yields for the    *)
(* search filter.                                                          *)
(***************************************************************************)
C28_UiResolverIsClientResolver ==
  Ui_load_thread_id_from_lock(env.VM_THREAD_FILTER, lockFile)
    = _load_thread_id_from_lock(env.VM_THREAD_FILTER, lockFile)

(***************************************************************************)
(* C29: the items one index-memory-bank call has loaded all carry the same *)
(* meta.thread_id, or none of them carries one, whatever another process   *)
(* does to the lock file while the directory is being read.                *)
(***************************************************************************)
C29_BatchHasOneThread ==
  \A c \in Callers :
    req[c].op = "index-memory-bank" =>
      \A i, j \in DOMAIN req[c].items :
        LET a == req[c].items[i].meta
            b == req[c].items[j].meta
        IN /\ "thread_id" \in DOMAIN a <=> "thread_id" \in DOMAIN b
           /\ "thread_id" \in DOMAIN a => a["thread_id"] = b["thread_id"]

\* The commands that look their collection up in the store's listing.
ListedCommands == {"query", "recall", "store-turn"}

(***************************************************************************)
(* C24: the commands query, recall and store-turn first ask the store for  *)
(* its collections.  When the resolved name is in the answer the use case  *)
(* runs; when it is not, or when the listing request failed (which counts  *)
(* as an empty list), the command ends at once with a status=error JSON    *)
(* and exit code 2.  So a command that has sent an embedding, search or    *)
(* upsert request has been given a listing that holds its collection.      *)
(***************************************************************************)
C24_CommandsRunOnlyOnListedCollection ==
  [][\A c \in Callers :
       /\ ( /\ req[c].op \in ListedCommands
            /\ pc[c] \in {"qry_list", "st_list"} /\ Sends(c) )
          => LET listed == IF SentNow(c).status = "200" THEN SentNow(c).answer ELSE {}
             IN /\ SentNow(c).method = "GET" /\ SentNow(c).path = "collections"
                /\ Len(http'[c]) = 1
                /\ store' = store
                /\ IF req[c].collection \in listed
                   THEN pc'[c] = (IF req[c].op = "store-turn" THEN "ups_embed" ELSE "qry_embed")
                   ELSE /\ pc'[c] = "idle"
                        /\ out'[c].status = "error"
                        /\ out'[c].value = <<[status |-> "error", code |-> 2]>>
       /\ (req[c].op \in ListedCommands)' =>
            /\ (pc[c] \notin {"idle", "qry_list", "st_list"})' =>
                 (/\ http[c] # <<>>
                  /\ http[c][1].path = "collections" /\ http[c][1].status = "200"
                  /\ req[c].collection \in http[c][1].answer)'
            /\ \A i \in DOMAIN http'[c] :
                 http'[c][i].path \in {"embeddings", "search", "points"} =>
                   /\ http'[c][1].path = "collections" /\ http'[c][1].status = "200"
                   /\ req'[c].collection \in http'[c][1].answer]_vars

\* A recall refused with exit code 2 because the listing request failed,
\* although the collection exists.
C24_Witness ==
  \E c \in Callers :
    /\ req[c].op = "recall" /\ pc[c] = "idle"
    /\ out[c].value = <<[status |-> "error", code |-> 2]>>
    /\ Len(http[c]) = 1 /\ http[c][1].status = "failed"
    /\ store[req[c].collection].exists

\* The collection of c's request is named by MEMORY_COLLECTION_NAME or by a
\* MEMORY_COLLECTION_NAME_* variable.
Declared(c) ==
  \/ req[c].collection = env.MEMORY_COLLECTION_NAME
  \/ req[c].collection = env.MEMORY_COLLECTION_NAME_2

(***************************************************************************)
(* C25: the ensure-collection command and vector_create_collection run the *)
(* ensure use case only for a collection the environment declares.  For    *)
(* any other name the call gets no further than its refusal: it sends      *)
(* nothing but the listing of the collections for its error answer, it     *)
(* ends with an error (the command with exit code 2), and no step of it    *)
(* changes the store.                                                      *)
(***************************************************************************)
C25_EnsureOnlyForDeclaredNames ==
  [][\A c \in Callers :
       ( /\ req[c].op \in {"ensure-collection", "vector_create_collection"}
         /\ ~Declared(c) )'
       => /\ pc'[c] \in {"idle", "deny_list"}
          /\ \A i \in DOMAIN http'[c] :
               http'[c][i].method = "GET" /\ http'[c][i].path = "collections"
          /\ (pc[c] # "idle" \/ pc'[c] # "idle") => store' = store
          /\ pc'[c] = "idle" =>
               /\ out'[c].status = "error"
               /\ req'[c].op = "ensure-collection" =>
                    out'[c].value = <<[status |-> "error", code |-> 2]>>]_vars

\* ensure-collection --dim 3 --recreate on a name the environment does not
\* declare, refused: the collection of size 2 is still there.
C25_Witness ==
  \E c \in Callers :
    /\ req[c].op = "ensure-collection" /\ req[c].recreate /\ req[c].dim = 3
    /\ ~Declared(c)
    /\ pc[c] = "idle" /\ out[c].value = <<[status |-> "error", code |-> 2]>>
    /\ store[req[c].collection] = Created(2, "Cosine")

\* The entry is one remember-bulk refuses: a string or a "text" that is
\* empty or blank, an object whose "text" is missing or no string, a value
\* that is neither string nor object, a line that is no JSON.
InvalidEntry(e) ==
  \/ e.kind \in {"other", "nojson"}
  \/ e.kind = "dict" /\ ~e.has_text
  \/ e.kind \in {"str", "dict"} /\ e.has_text /\ \A i \in DOMAIN e.text : e.text[i] \in Whitespace

\* The input of a remember-bulk is missing or invalid.
InvalidInput(input) ==
  \/ ~input.exists
  \/ input.format \notin {"json", "jsonl", "txt"}
  \/ input.format = "json" /\ (~input.decodes \/ ~input.list)
  \/ \E i \in DOMAIN input.entries : InvalidEntry(input.entries[i])

(***************************************************************************)
(* C26: remember-bulk checks its whole input before it stores anything.    *)
(* When the input file is missing, its format unsupported, its JSON        *)
(* malformed, or any one of its entries invalid, the command returns exit  *)
(* code 2 in the step it starts in, sends no embedding and no upsert       *)
(* request, and leaves the store as it was: no entry of the file is        *)
(* stored, the valid ones before the invalid one included.                 *)
(***************************************************************************)
C26_BulkAllOrNothing ==
  [][\A c \in Callers :
       ( /\ pc[c] = "idle" /\ ops' = ops + 1
         /\ req'[c].op = "remember-bulk"
         /\ InvalidInput(req'[c].input) )
       => /\ pc'[c] = "idle"
          /\ out'[c].status = "error"
          /\ out'[c].value = <<[status |-> "error", code |-> 2]>>
          /\ http'[c] = <<>>
          /\ req'[c].items = <<>>
          /\ store' = store]_vars

\* A json file whose first entry is valid and whose second has no text:
\* refused, nothing sent.
C26_Witness ==
  \E c \in Callers :
    /\ req[c].op = "remember-bulk" /\ pc[c] = "idle"
    /\ req[c].input.exists /\ Len(req[c].input.entries) = 2
    /\ ~InvalidEntry(req[c].input.entries[1])
    /\ req[c].input.entries[2].kind = "dict" /\ ~req[c].input.entries[2].has_text
    /\ out[c].value = <<[status |-> "error", code |-> 2]>>
    /\ http[c] = <<>>

(***************************************************************************)
(* C30: the points one store-turn call builds have pairwise distinct ids,  *)
(* also when two chunks have the same text, because the source of a chunk  *)
(* ends in its chunk index.  The upsert request therefore carries one      *)
(* point per chunk, and when it succeeds the store holds, under these ids, *)
(* exactly as many points of the call as the command reports as            *)
(* indexed_chunks (the number of its items).                               *)
(***************************************************************************)
C30_ChunkIdsDistinct ==
  [][\A c \in Callers :
       /\ (req[c].op = "store-turn")' =>
            \A e \in {http'[c][i] : i \in {j \in DOMAIN http'[c] : http'[c][j].path = "points"}} :
              /\ Len(e.body) = Len(req'[c].items)
              /\ \A i, j \in DOMAIN e.body : i # j => e.body[i].id # e.body[j].id
       /\ ( /\ req[c].op = "store-turn"
            /\ pc[c] = "ups_put" /\ Answered(c, "200") )
          => LET body == SentNow(c).body
                 ids == {body[i].id : i \in DOMAIN body}
                 indexed_chunks == Len(req[c].items)
             IN /\ pc'[c] = "idle" /\ out'[c].status = "ok"
                /\ Cardinality(ids) = indexed_chunks
                /\ ids \subseteq DOMAIN store'[req[c].collection].points
                /\ \A i \in DOMAIN body :
                     store'[req[c].collection].points[body[i].id] = body[i].payload]_vars

\* The turn "aa" stored in chunks of one character: two chunks of the same
\* text, two points in the store.
C30_Witness ==
  \E c \in Callers :
    /\ req[c].op = "store-turn" /\ pc[c] = "idle" /\ out[c].status = "ok"
    /\ Len(req[c].items) = 2
    /\ req[c].items[1].text = req[c].items[2].text
    /\ Cardinality(PointsOfMessage(req[c].collection,
                                   MessageId(req[c].ns.thread_id, req[c].ns.turn_index))) >= 2

====
